---------------------------- MODULE Spec2Model ----------------------------
(***************************************************************************)
(* Agent Controller (BotController) of the minecraft-AI orchestrator, as a *)
(* state machine.  One agent is modelled (BOT_COUNT = 1); its controller   *)
(* fields are the variables below, and every synchronous segment of code   *)
(* between two awaits is one atomic action, as on Node's single-threaded   *)
(* event loop.  Suspended async calls (ticks, speculative planner calls,   *)
(* stop) are explicit process records.                                     *)
(*                                                                         *)
(* Time is an integer clock `now` (the value of Date.now()) in units of    *)
(* ten seconds; durations are in the same unit, rounded down, so the fixed *)
(* 1200 ms, 2000 ms and 5000 ms of the code are 0.                         *)
(*                                                                         *)
(* The services the agents share (PlannerRateLimiter, LockManager,         *)
(* SkillEngine, SkillLimiter) are modelled with several agents, each under *)
(* a specification of its own in which the agents call it in any order;    *)
(* their clock is `clock`.                                                 *)
(***************************************************************************)
EXTENDS Integers, Sequences, FiniteSets, TLC

(***************************************************************************)
(* Bounds of the model.                                                    *)
(***************************************************************************)
MaxNow == 2            \* the clock runs from 1 to MaxNow
MaxIds == 4            \* subgoal ids handed out by makeId in one behaviour
MaxRestartIds == 2     \* the same, in the behaviours with stop() and start()
MaxWatchdogIds == 1    \* the same, in the behaviours of the watchdogs
MaxTicks == 2          \* ticks suspended at an await at the same time
MaxSpecTasks == 1      \* speculative planner calls in flight at the same time
MaxStops == 1          \* calls of stop() in one behaviour
MaxDisconnects == 1    \* end / kicked events in one behaviour
MaxDeaths == 1         \* death events in one behaviour
MaxClock == 4          \* the clock of the shared services runs from 0 to MaxClock
MaxLockEvents == 4     \* rows of the locks table written in one behaviour
MaxExecs == 2          \* calls of SkillEngine.execute in flight at the same time
MaxAdmissions == 3     \* admissions of the SkillLimiter recorded in one behaviour
MaxHistoryRuns == 4    \* executions of one agent in one behaviour of its history
MaxPlans == 2          \* calls of PlannerService.plan in one behaviour

(***************************************************************************)
(* Configuration (config.ts), scaled to clock units.                       *)
(***************************************************************************)
SUBGOAL_EXEC_TIMEOUT_MS == 1
SUBGOAL_IDLE_STALL_MS == 1
SUBGOAL_RETRY_LIMIT == 1
SUBGOAL_LOOP_GUARD_REPEATS == 2
SUBGOAL_FAILURE_STREAK_WINDOW_MS == 1
SUBGOAL_RETRY_MAX_DELAY_MS == 1
PLANNER_COOLDOWN_MS == 1
PLAN_PREFETCH_MIN_INTERVAL_MS == 1
PLAN_PREFETCH_MAX_AGE_MS == 1
ALWAYS_ACTIVE_REQUEUE_MS == 1
MAX_CONCURRENT_SKILLS == 1
PLAN_PREFETCH_ENABLED == TRUE
ALWAYS_ACTIVE_MODE == TRUE

\* fixed numbers of the controller code
SpeculativeMinElapsedMs == 0     \* 1200 ms into the subgoal
StuckMinElapsedMs == 0           \* 5000 ms into the subgoal
StuckRepeatMs == 0               \* 2000 ms since the last stuck handling
MaxRuns == 2                     \* executeReadySubgoals(maxRuns = 2)

\* the planner quota, with the hour scaled to two units of the services' clock
LLM_PER_BOT_HOURLY_CAP == 2
LLM_GLOBAL_HOURLY_CAP == 3
HourMs == 2                      \* 60 * 60 * 1000
RetryFloorMs == 0                \* Math.max(1000, ...)

\* the lease of a lock, in units of the services' clock
LOCK_LEASE_MS == 2
LLM_HISTORY_LIMIT == 2

BotId == "A"

\* the agents that share the orchestrator's services
Agents == {"A", "B"}

SubgoalNames == {"collect", "explore"}

FailureCodes ==
  {"RESOURCE_NOT_FOUND", "PATHFIND_FAILED", "NO_TOOL_AVAILABLE", "INVENTORY_FULL",
   "INTERRUPTED_BY_HOSTILES", "PLACEMENT_FAILED", "STUCK_TIMEOUT", "DEPENDS_ON_ITEM",
   "COMBAT_LOST_TARGET", "BOT_DIED"}

\* the failure codes the modelled skill handlers return
ModelCodes == {"PATHFIND_FAILED", "INVENTORY_FULL"}

\* the plans (after materialize + guard) the planner and the local planner return
Plans == {<<"collect">>, <<"collect", "explore">>}

NoSub == [id |-> 0, origin |-> 0, name |-> "none", retryCount |-> 0, notBeforeMs |-> 0]

NoPlan == [preparedAtMs |-> 0, forSubgoalId |-> 0, names |-> <<>>]

NoKey == <<"none", "none">>

NoFailure == [count |-> 0, requeued |-> FALSE]

VARIABLES
  now,                              \* Date.now()
  stopped, tickInFlight, loopTimer, \* BotController fields
  bot, connected, reconnectPending,
  plannerInFlight, speculativePlanInFlight, speculativePlan,
  lastSpeculativePlanAtMs, speculativeAttemptForSubgoalId,
  repeatedFailureKey, repeatedFailureCount, repeatedFailureLastAtMs,
  currentSubgoalStartedAtMs, currentSubgoalTimeoutHandled,
  forcedDisconnectReason, lastStuckTriggerAtMs,
  lastActivityAtMs, lastProgressAtMs, lastAlwaysActiveAtMs,
  busy, currentSubgoal, queue, pendingTriggers, plannerCooldownUntil, \* taskState
  active, waiting,                  \* SkillLimiter
  ticks,                            \* suspended tick() calls
  specTasks,                        \* speculative planner calls in flight
  stopAwaiting,                     \* stop() suspended at clearResidualActions
  timerStale,                       \* the reconnect timer's sourceBot is no longer this.bot
  idLog,                            \* history: where every id handed out comes from
  stops, disconnects, deaths,       \* history: how often stop(), end/kicked, death happened
  idBudget,                         \* the bound on ids of the specification at hand
  dispatchedAfterStop,              \* history: a skill was dispatched while stopped
  lastFailure,                      \* history: streak and decision of the last failure handling
  guardTrippedAtMs,                 \* history: when SUBGOAL_LOOP_GUARD last tripped (0: never)
  requeuedAfterGuard                \* history: a requeue happened within the window after a trip

agentVars ==
  <<now, stopped, tickInFlight, loopTimer, bot, connected, reconnectPending,
    plannerInFlight, speculativePlanInFlight, speculativePlan,
    lastSpeculativePlanAtMs, speculativeAttemptForSubgoalId,
    repeatedFailureKey, repeatedFailureCount, repeatedFailureLastAtMs,
    currentSubgoalStartedAtMs, currentSubgoalTimeoutHandled,
    forcedDisconnectReason, lastStuckTriggerAtMs,
    lastActivityAtMs, lastProgressAtMs, lastAlwaysActiveAtMs,
    busy, currentSubgoal, queue, pendingTriggers, plannerCooldownUntil,
    ticks, specTasks, stopAwaiting, timerStale,
    idLog, stops, disconnects, deaths, idBudget, dispatchedAfterStop, lastFailure,
    guardTrippedAtMs, requeuedAfterGuard>>

controllerVars == <<agentVars, active, waiting>>

VARIABLES
  clock,                            \* Date.now() of the shared services
  botCalls, globalCalls,            \* PlannerRateLimiter
  decision,                         \* the result of the last consume
  allowedLog                        \* history: every consume that returned allowed

limiterVars == <<botCalls, globalCalls, decision, allowedLog>>

VARIABLES
  leases,                           \* LockManager.leases, in the Map's insertion order
  lockEvents,                       \* the rows of the locks table of the store
  lockCall,                         \* the last call of the LockManager and what it returned
  granted                           \* history: per key and agent, the expiry last granted

lockVars == <<leases, lockEvents, lockCall, granted>>

VARIABLES
  execs,                            \* the calls of SkillEngine.execute and their tickers
  lastReturn                        \* what the last execute to return has returned

engineVars == <<execs, lastReturn>>

VARIABLES
  arrivedAll,                       \* history: the refused callers of tryEnter not admitted since
  arrived,                          \* history: the same, without those that called leave or forget
  admissions                        \* history: the admissions and whom each one passed

slotVars == <<arrivedAll, arrived, admissions>>

VARIABLES
  history,                          \* ActionHistoryBuffer.entries of the agent
  pendingRuns,                      \* the subgoals whose skillEngine.execute has not returned
  completions                       \* history: the returns of execute, in their order

historyVars == <<history, pendingRuns, completions>>

VARIABLES
  guardSnapshot, guardPlan,         \* the arguments of enforceSubgoalPrerequisites
  guardRuns                         \* what the guard returned: for the plan, then for its own result

guardVars == <<guardSnapshot, guardPlan, guardRuns>>

VARIABLES
  normalizerInput,                  \* the argument of normalizePlannerSubgoals
  normalizerRuns                    \* what it returned: for the input, then for its own result

normalizerVars == <<normalizerInput, normalizerRuns>>

pureVars == <<guardVars, normalizerVars>>

VARIABLES
  plannerOptions,                   \* PlannerService.options
  planSnapshot,                     \* request.snapshot of the calls of plan
  planner,                          \* the call of plan in flight, with its locals
  planResults                       \* history: what the calls of plan returned

plannerVars == <<plannerOptions, planSnapshot, planner, planResults>>

serviceVars == <<historyVars, pureVars, plannerVars>>

coordVars == <<clock, limiterVars, lockVars, engineVars, slotVars, serviceVars>>

vars == <<controllerVars, coordVars>>

(***************************************************************************)
(* The state as one record, so that the synchronous code of a handler can  *)
(* be written as a composition of functions from state to state.           *)
(***************************************************************************)
St ==
  [now |-> now, stopped |-> stopped, tickInFlight |-> tickInFlight,
   loopTimer |-> loopTimer, bot |-> bot, connected |-> connected,
   reconnectPending |-> reconnectPending, plannerInFlight |-> plannerInFlight,
   speculativePlanInFlight |-> speculativePlanInFlight,
   speculativePlan |-> speculativePlan,
   lastSpeculativePlanAtMs |-> lastSpeculativePlanAtMs,
   speculativeAttemptForSubgoalId |-> speculativeAttemptForSubgoalId,
   repeatedFailureKey |-> repeatedFailureKey,
   repeatedFailureCount |-> repeatedFailureCount,
   repeatedFailureLastAtMs |-> repeatedFailureLastAtMs,
   currentSubgoalStartedAtMs |-> currentSubgoalStartedAtMs,
   currentSubgoalTimeoutHandled |-> currentSubgoalTimeoutHandled,
   forcedDisconnectReason |-> forcedDisconnectReason,
   lastStuckTriggerAtMs |-> lastStuckTriggerAtMs,
   lastActivityAtMs |-> lastActivityAtMs, lastProgressAtMs |-> lastProgressAtMs,
   lastAlwaysActiveAtMs |-> lastAlwaysActiveAtMs,
   busy |-> busy, currentSubgoal |-> currentSubgoal, queue |-> queue,
   pendingTriggers |-> pendingTriggers, plannerCooldownUntil |-> plannerCooldownUntil,
   active |-> active, waiting |-> waiting, ticks |-> ticks, specTasks |-> specTasks,
   stopAwaiting |-> stopAwaiting, timerStale |-> timerStale,
   idLog |-> idLog, stops |-> stops, disconnects |-> disconnects, deaths |-> deaths,
   idBudget |-> idBudget,
   dispatchedAfterStop |-> dispatchedAfterStop, lastFailure |-> lastFailure,
   guardTrippedAtMs |-> guardTrippedAtMs, requeuedAfterGuard |-> requeuedAfterGuard]

Commit(next) ==
  \E s \in {next} :
    /\ Len(s.idLog) <= s.idBudget
    /\ Len(s.ticks) <= MaxTicks
    /\ Len(s.specTasks) <= MaxSpecTasks
    /\ s.stops <= MaxStops
    /\ s.disconnects <= MaxDisconnects
    /\ s.deaths <= MaxDeaths
    /\ now' = s.now
    /\ stopped' = s.stopped
    /\ tickInFlight' = s.tickInFlight
    /\ loopTimer' = s.loopTimer
    /\ bot' = s.bot
    /\ connected' = s.connected
    /\ reconnectPending' = s.reconnectPending
    /\ plannerInFlight' = s.plannerInFlight
    /\ speculativePlanInFlight' = s.speculativePlanInFlight
    /\ speculativePlan' = s.speculativePlan
    /\ lastSpeculativePlanAtMs' = s.lastSpeculativePlanAtMs
    /\ speculativeAttemptForSubgoalId' = s.speculativeAttemptForSubgoalId
    /\ repeatedFailureKey' = s.repeatedFailureKey
    /\ repeatedFailureCount' = s.repeatedFailureCount
    /\ repeatedFailureLastAtMs' = s.repeatedFailureLastAtMs
    /\ currentSubgoalStartedAtMs' = s.currentSubgoalStartedAtMs
    /\ currentSubgoalTimeoutHandled' = s.currentSubgoalTimeoutHandled
    /\ forcedDisconnectReason' = s.forcedDisconnectReason
    /\ lastStuckTriggerAtMs' = s.lastStuckTriggerAtMs
    /\ lastActivityAtMs' = s.lastActivityAtMs
    /\ lastProgressAtMs' = s.lastProgressAtMs
    /\ lastAlwaysActiveAtMs' = s.lastAlwaysActiveAtMs
    /\ busy' = s.busy
    /\ currentSubgoal' = s.currentSubgoal
    /\ queue' = s.queue
    /\ pendingTriggers' = s.pendingTriggers
    /\ plannerCooldownUntil' = s.plannerCooldownUntil
    /\ active' = s.active
    /\ waiting' = s.waiting
    /\ ticks' = s.ticks
    /\ specTasks' = s.specTasks
    /\ stopAwaiting' = s.stopAwaiting
    /\ timerStale' = s.timerStale
    /\ idLog' = s.idLog
    /\ stops' = s.stops
    /\ disconnects' = s.disconnects
    /\ deaths' = s.deaths
    /\ idBudget' = s.idBudget
    /\ dispatchedAfterStop' = s.dispatchedAfterStop
    /\ lastFailure' = s.lastFailure
    /\ guardTrippedAtMs' = s.guardTrippedAtMs
    /\ requeuedAfterGuard' = s.requeuedAfterGuard
    /\ UNCHANGED coordVars

(***************************************************************************)
(* Sequence helpers.                                                       *)
(***************************************************************************)
RemoveAt(seq, i) == SubSeq(seq, 1, i - 1) \o SubSeq(seq, i + 1, Len(seq))

InSeq(x, seq) == \E i \in 1..Len(seq) : seq[i] = x

Without(seq, x) == SelectSeq(seq, LAMBDA y : y # x)

\* Array.prototype.findIndex, 1-based; 0 when nothing matches
FirstReady(q, t) ==
  IF \E i \in 1..Len(q) : q[i].notBeforeMs <= t
  THEN CHOOSE i \in 1..Len(q) :
         /\ q[i].notBeforeMs <= t
         /\ \A j \in 1..(i - 1) : q[j].notBeforeMs > t
  ELSE 0

\* the loop of maybeHandleNonBusyInactivity: the first entry with the least notBeforeMs
EarliestIndex(q) ==
  CHOOSE i \in 1..Len(q) :
    /\ \A j \in 1..Len(q) : q[i].notBeforeMs <= q[j].notBeforeMs
    /\ \A j \in 1..(i - 1) : q[j].notBeforeMs > q[i].notBeforeMs

(***************************************************************************)
(* SkillLimiter (coordination).                                            *)
(***************************************************************************)
SkillLimiterLeave(s, b) ==
  [s EXCEPT !.active = @ \ {b}, !.waiting = Without(@, b)]

SkillLimiterForget(s, b) == SkillLimiterLeave(s, b)

\* a tryEnter that admits whoever finds the slot free
SkillLimiterTryEnterUnordered(s, b) ==
  IF b \in s.active
  THEN [ok |-> TRUE, st |-> s]
  ELSE LET w == IF InSeq(b, s.waiting) THEN s.waiting ELSE Append(s.waiting, b)
       IN IF Cardinality(s.active) >= MAX_CONCURRENT_SKILLS
          THEN [ok |-> FALSE, st |-> [s EXCEPT !.waiting = w]]
          ELSE [ok |-> TRUE,
                st |-> [s EXCEPT !.waiting = Without(w, b), !.active = @ \cup {b}]]

SkillLimiterTryEnter(s, b) ==
  IF b \in s.active
  THEN [ok |-> TRUE, st |-> s]
  ELSE LET w == IF InSeq(b, s.waiting) THEN s.waiting ELSE Append(s.waiting, b)
       IN IF Head(w) # b \/ Cardinality(s.active) >= MAX_CONCURRENT_SKILLS
          THEN [ok |-> FALSE, st |-> [s EXCEPT !.waiting = w]]
          ELSE [ok |-> TRUE,
                st |-> [s EXCEPT !.waiting = Tail(w), !.active = @ \cup {b}]]

(***************************************************************************)
(* Small controller methods.                                               *)
(***************************************************************************)
MarkActivity(s) == [s EXCEPT !.lastActivityAtMs = s.now]

MarkProgress(s) == [s EXCEPT !.lastProgressAtMs = s.now, !.lastActivityAtMs = s.now]

\* makeId + the bookkeeping of where an id comes from
NextId(s) == Len(s.idLog) + 1

\* runtimeSubgoal(), for every subgoal of a plan
RuntimeSubgoals(s, names) ==
  [i \in 1..Len(names) |->
     [id |-> Len(s.idLog) + i, origin |-> Len(s.idLog) + i, name |-> names[i],
      retryCount |-> 0, notBeforeMs |-> 0]]

LogFresh(s, n) ==
  [s EXCEPT !.idLog = @ \o [i \in 1..n |->
                              [origin |-> Len(s.idLog) + i, parent |-> 0,
                               via |-> "plan", limit |-> 0]]]

SetQueueFromPlan(s, names) ==
  [LogFresh(s, Len(names)) EXCEPT !.queue = RuntimeSubgoals(s, names)]

PushTrigger(s, trigger) ==
  [s EXCEPT !.pendingTriggers = @ \cup {trigger},
            !.queue = IF trigger = "DEATH" THEN <<>> ELSE @]

CanRetryFailure(errorCode) ==
  errorCode \in {"RESOURCE_NOT_FOUND", "PATHFIND_FAILED", "INTERRUPTED_BY_HOSTILES",
                 "STUCK_TIMEOUT", "INVENTORY_FULL", "COMBAT_LOST_TARGET",
                 "PLACEMENT_FAILED"}

RetryLimitFor(errorCode) ==
  CASE errorCode \in {"PATHFIND_FAILED", "RESOURCE_NOT_FOUND"} -> SUBGOAL_RETRY_LIMIT + 4
    [] errorCode \in {"INTERRUPTED_BY_HOSTILES", "COMBAT_LOST_TARGET"} -> SUBGOAL_RETRY_LIMIT + 3
    [] errorCode \in {"STUCK_TIMEOUT", "PLACEMENT_FAILED"} -> SUBGOAL_RETRY_LIMIT + 2
    [] OTHER -> SUBGOAL_RETRY_LIMIT

\* history: a retry requeue happened; was it within the window after the loop guard tripped
NoteRequeue(s) ==
  [s EXCEPT !.requeuedAfterGuard =
     @ \/ (s.guardTrippedAtMs > 0 /\
           s.now - s.guardTrippedAtMs <= SUBGOAL_FAILURE_STREAK_WINDOW_MS)]

(***************************************************************************)
(* scheduleReconnect(sourceBot, reason, detail), for sourceBot = this.bot. *)
(* The delay (disconnectStreak, jitter) only decides when the timer fires, *)
(* which is the ReconnectTimer action.                                     *)
(***************************************************************************)
ScheduleReconnect(s) ==
  IF s.reconnectPending \/ s.stopped
  THEN s
  ELSE LET s1 == [SkillLimiterForget(s, BotId) EXCEPT
                    !.speculativePlanInFlight = FALSE,
                    !.speculativePlan = NoPlan,
                    !.speculativeAttemptForSubgoalId = 0,
                    !.connected = FALSE,
                    !.reconnectPending = TRUE,
                    !.timerStale = FALSE,
                    !.busy = FALSE,
                    !.currentSubgoal = NoSub]
           interruptedSubgoal == s.currentSubgoal
           s2 == IF interruptedSubgoal # NoSub /\
                    interruptedSubgoal.retryCount < SUBGOAL_RETRY_LIMIT
                 THEN [NoteRequeue(s1) EXCEPT
                         !.queue = <<[interruptedSubgoal EXCEPT
                                        !.id = NextId(s1),
                                        !.retryCount = @ + 1]>> \o @,
                         !.idLog = Append(@, [origin |-> interruptedSubgoal.origin,
                                              parent |-> interruptedSubgoal.id,
                                              via |-> "disconnect",
                                              limit |-> SUBGOAL_RETRY_LIMIT])]
                 ELSE s1
       IN PushTrigger(s2, "RECONNECT")

(***************************************************************************)
(* connect(): creates the client unless stopped, reconnecting or connected.*)
(***************************************************************************)
Connect(s) ==
  IF s.stopped \/ s.reconnectPending \/ s.connected
  THEN s
  ELSE [s EXCEPT !.bot = "created"]

(***************************************************************************)
(* The checks at the head of tick().                                       *)
(***************************************************************************)
MaybeHandleActiveSubgoalTimeout(s) ==
  IF ~s.busy \/ s.currentSubgoal = NoSub \/ s.bot = "none" THEN s
  ELSE IF s.currentSubgoalTimeoutHandled THEN s
  ELSE IF s.currentSubgoalStartedAtMs <= 0 THEN s
  ELSE IF s.now - s.currentSubgoalStartedAtMs < SUBGOAL_EXEC_TIMEOUT_MS THEN s
  ELSE [s EXCEPT !.currentSubgoalTimeoutHandled = TRUE,
                 !.forcedDisconnectReason = "subgoal_timeout"]

\* progressed: what the probe sees ("none", "moved", "inventory"); the 700 ms
\* throttle of the probe is below the clock's resolution
\* progressed: the position moved by at least 0.15 or the inventory total changed
\* since the last probe; both branches set lastProgressAtMs and lastActivityAtMs
ProbeProgress(s, progressed) ==
  IF s.bot = "none" THEN s
  ELSE IF progressed THEN MarkProgress(s)
  ELSE s

MaybeHandleActiveSubgoalIdle(s, progressed) ==
  IF ~s.busy \/ s.currentSubgoal = NoSub \/ s.bot = "none" THEN s
  ELSE IF s.currentSubgoalStartedAtMs <= 0 THEN s
  ELSE LET s1 == ProbeProgress(s, progressed)
       IN IF s1.now - s1.lastProgressAtMs < SUBGOAL_IDLE_STALL_MS THEN s1
          ELSE [s1 EXCEPT !.forcedDisconnectReason = "subgoal_idle_stall"]

\* capOk: planner.callsInLastHour leaves room under the caps minus the reserve
CanStartSpeculativePlan(s, capOk) ==
  /\ PLAN_PREFETCH_ENABLED
  /\ ~(s.plannerInFlight \/ s.speculativePlanInFlight)
  /\ ~(~s.busy \/ s.currentSubgoal = NoSub \/ Len(s.queue) > 0)
  /\ ~(s.currentSubgoalStartedAtMs > 0 /\
       s.now - s.currentSubgoalStartedAtMs < SpeculativeMinElapsedMs)
  /\ s.pendingTriggers = {}
  /\ ~(s.now - s.lastSpeculativePlanAtMs < PLAN_PREFETCH_MIN_INTERVAL_MS)
  /\ s.speculativeAttemptForSubgoalId # s.currentSubgoal.id
  /\ ~(/\ s.speculativePlan # NoPlan
       /\ s.speculativePlan.forSubgoalId = s.currentSubgoal.id
       /\ s.now - s.speculativePlan.preparedAtMs <= PLAN_PREFETCH_MAX_AGE_MS)
  /\ capOk

\* starts the detached async call; the snapshot is there because this.bot is
MaybeStartSpeculativePlan(s, capOk) ==
  IF ~CanStartSpeculativePlan(s, capOk) THEN s
  ELSE [s EXCEPT !.speculativePlanInFlight = TRUE,
                 !.speculativeAttemptForSubgoalId = s.currentSubgoal.id,
                 !.lastSpeculativePlanAtMs = s.now,
                 !.specTasks = Append(@, s.currentSubgoal.id)]

\* the STUCK branch of tick() while busy
StuckRecovery(s) ==
  IF "STUCK" \in s.pendingTriggers /\ s.currentSubgoalStartedAtMs > 0
     /\ s.now - s.currentSubgoalStartedAtMs >= StuckMinElapsedMs
     /\ s.now - s.lastStuckTriggerAtMs >= StuckRepeatMs
  THEN [s EXCEPT !.lastStuckTriggerAtMs = s.now,
                 !.forcedDisconnectReason = "stuck_recovery",
                 !.pendingTriggers = @ \ {"STUCK"}]
  ELSE s

\* localPlan: what buildLocalActivityPlan returns for the snapshot (never empty)
EnqueueAlwaysActiveSubgoal(s, nowMs, localPlan) ==
  IF ~ALWAYS_ACTIVE_MODE \/ s.bot = "none" THEN s
  ELSE IF s.plannerInFlight THEN s
  ELSE IF s.busy \/ Len(s.queue) > 0 THEN s
  ELSE IF nowMs - s.lastAlwaysActiveAtMs < ALWAYS_ACTIVE_REQUEUE_MS THEN s
  ELSE [SetQueueFromPlan(s, localPlan) EXCEPT !.lastAlwaysActiveAtMs = nowMs]

MaybeHandleNonBusyInactivity(s, localPlan) ==
  IF s.busy \/ s.bot = "none" THEN s
  ELSE IF s.now - s.lastActivityAtMs < SUBGOAL_IDLE_STALL_MS THEN s
  ELSE IF Len(s.queue) = 0
       THEN LET s1 == EnqueueAlwaysActiveSubgoal(s, s.now, localPlan)
            IN MarkActivity(IF Len(s1.queue) = 0
                            THEN SetQueueFromPlan(s1, <<"explore">>)
                            ELSE s1)
  ELSE IF FirstReady(s.queue, s.now) > 0 THEN s
  ELSE MarkActivity([s EXCEPT !.queue[EarliestIndex(s.queue)].notBeforeMs = s.now])

\* completedSubgoalId = 0 stands for the call without an argument
ConsumeSpeculativePlanIfFresh(s, completedSubgoalId) ==
  IF s.speculativePlan = NoPlan THEN [ok |-> FALSE, st |-> s]
  ELSE IF completedSubgoalId = 0 /\ "SUBGOAL_COMPLETED" \notin s.pendingTriggers
       THEN [ok |-> FALSE, st |-> s]
  ELSE IF s.now - s.speculativePlan.preparedAtMs > PLAN_PREFETCH_MAX_AGE_MS
       THEN [ok |-> FALSE, st |-> [s EXCEPT !.speculativePlan = NoPlan]]
  ELSE IF completedSubgoalId # 0 /\ s.speculativePlan.forSubgoalId # completedSubgoalId
       THEN [ok |-> FALSE, st |-> s]
  ELSE IF Len(s.queue) > 0 \/ s.busy THEN [ok |-> FALSE, st |-> s]
  ELSE [ok |-> TRUE,
        st |-> [SetQueueFromPlan(s, s.speculativePlan.names) EXCEPT
                  !.pendingTriggers = {},
                  !.speculativePlan = NoPlan]]

(***************************************************************************)
(* tick() and what it awaits.  A suspended tick is a record: pc is the     *)
(* await it is parked at ("clear_pre": clearResidualActions before the     *)
(* dispatch, "skill": skillEngine.execute, "clear_post": the cleanup in    *)
(* the finally block, "plan": planner.plan in requestPlan), sub the        *)
(* subgoal of executeNextSubgoal, run the loop counter of                  *)
(* executeReadySubgoals, nowMs the `now` constant of a tick parked in      *)
(* requestPlan (tick() uses it again afterwards).  An await on a promise   *)
(* that is already settled (clearResidualActions without a bot) resumes in *)
(* the same macrotask and is not a suspension point.                       *)
(***************************************************************************)
TickRec(pc, sub, run, nowMs) == [pc |-> pc, sub |-> sub, run |-> run, nowMs |-> nowMs]

\* the promise of tick() settles: .finally(() => { this.tickInFlight = false })
EndTick(s) == [s EXCEPT !.tickInFlight = FALSE]

Suspend(s, rec) == [s EXCEPT !.ticks = Append(@, rec)]

\* executeNextSubgoal() up to its first await; sub = NoSub when it returned false
ExecuteNextSubgoal(s) ==
  LET e == SkillLimiterTryEnter(s, BotId)
  IN IF ~e.ok THEN [st |-> e.st, sub |-> NoSub]
     ELSE LET nextReadyIndex == FirstReady(e.st.queue, e.st.now)
          IN IF nextReadyIndex = 0
             THEN [st |-> SkillLimiterLeave(e.st, BotId), sub |-> NoSub]
             ELSE LET subgoal == e.st.queue[nextReadyIndex]
                      s1 == [e.st EXCEPT !.queue = RemoveAt(@, nextReadyIndex)]
                  IN IF s1.bot = "none"
                     THEN [st |-> SkillLimiterLeave(s1, BotId), sub |-> NoSub]
                     ELSE [st |-> s1, sub |-> subgoal]

\* executeReadySubgoals() from loop iteration `run` on, and the return of tick() after it
ExecuteReadySubgoals(s, run) ==
  IF run >= MaxRuns \/ s.stopped \/ s.bot = "none" \/ ~s.connected \/ s.busy
     \/ Len(s.queue) = 0
  THEN Commit(EndTick(s))
  ELSE \E r \in {ExecuteNextSubgoal(s)} :
         IF r.sub = NoSub THEN Commit(EndTick(r.st))
         ELSE Commit(Suspend(r.st, TickRec("clear_pre", r.sub, run, 0)))

\* the last lines of tick(): the always-active plan when the queue is still empty
TickTail(s, nowMs, localPlan) ==
  IF Len(s.queue) = 0
  THEN \E s1 \in {EnqueueAlwaysActiveSubgoal(s, nowMs, localPlan)} :
         IF Len(s1.queue) > 0 THEN ExecuteReadySubgoals(s1, 0) ELSE Commit(EndTick(s1))
  ELSE Commit(EndTick(s))

\* requestPlan() up to await planner.plan
RequestPlanCall(s) ==
  Suspend([s EXCEPT !.plannerInFlight = TRUE, !.speculativePlan = NoPlan],
          TickRec("plan", NoSub, 0, s.now))

\* tick() up to its first await
TickBody(s, progressed, capOk, localPlan) ==
  IF s.stopped \/ s.bot = "none" \/ ~s.connected THEN Commit(EndTick(s))
  ELSE
    \E s1 \in {MaybeHandleActiveSubgoalIdle(MaybeHandleActiveSubgoalTimeout(s),
                                            progressed)} :
      IF s1.busy
      THEN Commit(EndTick(StuckRecovery(MaybeStartSpeculativePlan(s1, capOk))))
      ELSE
        \E s2 \in {MaybeHandleNonBusyInactivity(s1, localPlan)} :
        \E c \in {IF Len(s2.queue) = 0
                  THEN ConsumeSpeculativePlanIfFresh(s2, 0)
                  ELSE [ok |-> FALSE, st |-> s2]} :
        \E s3 \in {c.st} :
          LET shouldPlan == /\ s3.pendingTriggers # {}
                            /\ s3.now >= s3.plannerCooldownUntil
                            /\ ~s3.speculativePlanInFlight
          IN IF c.ok THEN ExecuteReadySubgoals(s3, 0)
             ELSE IF Len(s3.queue) > 0 THEN ExecuteReadySubgoals(s3, 0)
             ELSE IF shouldPlan /\ ~s3.plannerInFlight THEN Commit(RequestPlanCall(s3))
             ELSE TickTail(s3, s.now, localPlan)

\* executeNextSubgoal() after the first clearResidualActions, up to skillEngine.execute.
\* `this.bot.health` raises a TypeError when this.bot is null: the call is not
\* made and the tick's promise rejects, with busy and currentSubgoal left set.
DispatchSubgoal(s, rec) ==
  LET s1 == MarkProgress([s EXCEPT !.busy = TRUE,
                                   !.currentSubgoal = rec.sub,
                                   !.speculativeAttemptForSubgoalId = 0,
                                   !.currentSubgoalStartedAtMs = s.now,
                                   !.currentSubgoalTimeoutHandled = FALSE])
  IN IF s1.bot = "none" THEN EndTick(s1)
     ELSE Suspend([s1 EXCEPT !.dispatchedAfterStop = @ \/ s1.stopped],
                  TickRec("skill", rec.sub, rec.run, 0))

\* a loop guard that lets the streak reach loop_guard_repeats before it trips
LoopGuardOneLate(count) == count > SUBGOAL_LOOP_GUARD_REPEATS

\* the test of SUBGOAL_LOOP_GUARD
LoopGuardTripped(count) == count >= SUBGOAL_LOOP_GUARD_REPEATS

\* a hard failure that asks for a new plan and keeps the rest of the queue
HardFailureKeepsQueue(s) ==
  [s EXCEPT !.plannerCooldownUntil = s.now,
            !.pendingTriggers = {"SUBGOAL_FAILED"}]

\* the else branch of the retry test: the failure is not requeued
HardFailure(s) ==
  [s EXCEPT !.queue = <<>>,
            !.plannerCooldownUntil = s.now,
            !.pendingTriggers = {"SUBGOAL_FAILED"}]

\* the failure branch after skillEngine.execute returned
HandleFailure(s, subgoal, errorCode, resultRetryable, retryDelayMs) ==
  LET failureKey == <<subgoal.name, errorCode>>
      continued == /\ s.repeatedFailureKey = failureKey
                   /\ s.now - s.repeatedFailureLastAtMs <= SUBGOAL_FAILURE_STREAK_WINDOW_MS
      count == IF continued THEN s.repeatedFailureCount + 1 ELSE 1
      loopGuard == LoopGuardTripped(count)
      retryable == resultRetryable /\ CanRetryFailure(errorCode) /\ ~loopGuard
      s1 == [s EXCEPT !.speculativePlan = NoPlan,
                      !.repeatedFailureKey = failureKey,
                      !.repeatedFailureCount = count,
                      !.repeatedFailureLastAtMs = s.now,
                      !.guardTrippedAtMs = IF loopGuard THEN s.now ELSE @]
  IN IF retryable /\ subgoal.retryCount < RetryLimitFor(errorCode)
     THEN [NoteRequeue(s1) EXCEPT
             !.queue = <<[subgoal EXCEPT !.id = NextId(s1),
                                         !.retryCount = @ + 1,
                                         !.notBeforeMs = s.now + retryDelayMs]>> \o @,
             !.idLog = Append(@, [origin |-> subgoal.origin, parent |-> subgoal.id,
                                  via |-> "failure",
                                  limit |-> RetryLimitFor(errorCode)]),
             !.lastFailure = [count |-> count, requeued |-> TRUE]]
     ELSE [HardFailure(s1) EXCEPT !.lastFailure = [count |-> count, requeued |-> FALSE]]

\* the success branch after skillEngine.execute returned
HandleSuccess(s, subgoal) ==
  LET s1 == [s EXCEPT !.repeatedFailureKey = NoKey,
                      !.repeatedFailureCount = 0,
                      !.repeatedFailureLastAtMs = 0]
  IN IF Len(s1.queue) = 0
     THEN LET c == ConsumeSpeculativePlanIfFresh(s1, subgoal.id)
          IN IF c.ok THEN c.st
             ELSE [c.st EXCEPT !.pendingTriggers = {"SUBGOAL_COMPLETED"}]
     ELSE s1

\* the finally block after its clearResidualActions, then the loop of
\* executeReadySubgoals (or the rejection of the tick when the try block threw)
FinishSubgoal(s, rec, threw) ==
  \E s1 \in {SkillLimiterLeave([s EXCEPT !.currentSubgoal = NoSub,
                                         !.busy = FALSE,
                                         !.currentSubgoalStartedAtMs = 0,
                                         !.currentSubgoalTimeoutHandled = FALSE],
                                BotId)} :
    IF threw THEN Commit(EndTick(s1)) ELSE ExecuteReadySubgoals(s1, rec.run + 1)

\* executeNextSubgoal() from the return of skillEngine.execute to the await in
\* the finally block.  `this.bot.health` raises when this.bot is null: the rest
\* of the try block is skipped, and clearResidualActions returns at once.
HandleSkillResult(s, rec, result) ==
  IF s.bot = "none"
  THEN FinishSubgoal(s, rec, TRUE)
  ELSE Commit(Suspend(IF result.outcome = "FAILURE"
                      THEN HandleFailure(s, rec.sub, result.errorCode, result.retryable,
                                         result.delay)
                      ELSE HandleSuccess(s, rec.sub),
                      TickRec("clear_post", rec.sub, rec.run, 0)))

\* requestPlan() after planner.plan settled, and the rest of tick().
\* names: the guarded plan (may be empty); thrown: planner.plan raised.
RequestPlanReturn(s, nowMs, thrown, names, localPlan) ==
  \E s1 \in {IF thrown
              THEN LET s0 == [s EXCEPT
                                !.plannerCooldownUntil = s.now + PLANNER_COOLDOWN_MS,
                                !.pendingTriggers = {"SUBGOAL_FAILED"}]
                   IN IF Len(s0.queue) = 0 THEN SetQueueFromPlan(s0, localPlan) ELSE s0
              ELSE [SetQueueFromPlan(s, IF names = <<>> THEN <<"explore">> ELSE names)
                      EXCEPT !.pendingTriggers = {}]} :
  \E s2 \in {[s1 EXCEPT !.plannerInFlight = FALSE]} :
    IF ~s2.busy /\ Len(s2.queue) > 0
    THEN ExecuteReadySubgoals(s2, 0)
    ELSE TickTail(s2, nowMs, localPlan)

\* the detached call of maybeStartSpeculativePlan after planner.plan settled
SpeculativePlanReturn(s, forSubgoalId, thrown, names) ==
  LET stillRelevant == /\ s.currentSubgoal.id = forSubgoalId
                       /\ s.busy
                       /\ ~s.stopped
                       /\ s.connected
      s1 == IF ~thrown /\ stillRelevant /\ names # <<>>
            THEN [s EXCEPT !.speculativePlan =
                    [preparedAtMs |-> s.now, forSubgoalId |-> forSubgoalId,
                     names |-> names]]
            ELSE s
  IN [s1 EXCEPT !.speculativePlanInFlight = FALSE]

(***************************************************************************)
(* Inputs of the handlers.                                                 *)
(***************************************************************************)
\* what skillEngine.execute resolves to (it never rejects)
SkillResults ==
  {[outcome |-> "SUCCESS", errorCode |-> "none", retryable |-> TRUE, delay |-> 0]}
  \cup [outcome : {"FAILURE"}, errorCode : ModelCodes, retryable : BOOLEAN,
        delay : 0..SUBGOAL_RETRY_MAX_DELAY_MS]

\* the guarded plan of a planner call: a plan, or nothing left after the guard
PlannerPlans == Plans \cup {<<>>}

(***************************************************************************)
(* PlannerRateLimiter: rolling one-hour windows of the admitted calls.     *)
(***************************************************************************)
NoDecision == [bot |-> "none", at |-> 0, allowed |-> FALSE, reason |-> "none", retryAfterMs |-> 0]

rollingHourWindowStart(nowMs) == nowMs - HourMs

\* the while loop of prune on one array: shift while the first stamp is before the threshold
RECURSIVE PruneCalls(_, _)
PruneCalls(calls, nowMs) ==
  IF Len(calls) > 0 /\ Head(calls) < rollingHourWindowStart(nowMs)
  THEN PruneCalls(Tail(calls), nowMs)
  ELSE calls

\* a comparison that lets one call more through
BotCapExceeded(n) == n > LLM_PER_BOT_HOURLY_CAP

\* botTimestamps.length >= this.perBotCap
BotCapReached(n) == n >= LLM_PER_BOT_HOURLY_CAP

\* a comparison that lets one call more through
GlobalCapExceeded(n) == n > LLM_GLOBAL_HOURLY_CAP

\* this.globalCalls.length >= this.globalCap
GlobalCapReached(n) == n >= LLM_GLOBAL_HOURLY_CAP

\* a consume that records its stamp whatever the decision
RecordAlways(calls, nowMs, allowed) == Append(calls, nowMs)

\* the two push calls at the end of consume, reached only when the call is allowed
Record(calls, nowMs, allowed) == IF allowed THEN Append(calls, nowMs) ELSE calls

RetryAfter(calls, nowMs) ==
  LET earliest == IF Len(calls) > 0 THEN Head(calls) ELSE nowMs
      wait == earliest + HourMs - nowMs
  IN IF wait > RetryFloorMs THEN wait ELSE RetryFloorMs

\* consume(botId)
Consume(b) ==
  \E g \in {PruneCalls(globalCalls, clock)},
     bc \in {[a \in Agents |-> PruneCalls(botCalls[a], clock)]} :
    \E d \in {IF BotCapReached(Len(bc[b]))
               THEN [bot |-> b, at |-> clock, allowed |-> FALSE, reason |-> "BOT_CAP",
                     retryAfterMs |-> RetryAfter(bc[b], clock)]
               ELSE IF GlobalCapReached(Len(g))
               THEN [bot |-> b, at |-> clock, allowed |-> FALSE, reason |-> "GLOBAL_CAP",
                     retryAfterMs |-> RetryAfter(g, clock)]
               ELSE [bot |-> b, at |-> clock, allowed |-> TRUE, reason |-> "none",
                     retryAfterMs |-> 0]} :
      /\ decision' = d
      /\ botCalls' = [bc EXCEPT ![b] = Record(@, clock, d.allowed)]
      /\ globalCalls' = Record(g, clock, d.allowed)
      /\ allowedLog' = IF d.allowed
                       THEN Append(allowedLog, [bot |-> b, at |-> clock])
                       ELSE allowedLog

\* callsInLastHour(botId?): prune, then the length of one window
CallsInLastHour ==
  /\ globalCalls' = PruneCalls(globalCalls, clock)
  /\ botCalls' = [a \in Agents |-> PruneCalls(botCalls[a], clock)]
  /\ UNCHANGED <<decision, allowedLog>>

ConstructedLimiter ==
  /\ botCalls = [a \in Agents |-> <<>>]
  /\ globalCalls = <<>>
  /\ decision = NoDecision
  /\ allowedLog = <<>>

(***************************************************************************)
(* LockManager: leased locks on resource keys.  The state of the manager   *)
(* and of the locks table is one record, so that a call is a composition   *)
(* of functions from state to state.                                       *)
(***************************************************************************)
LockKeys == {"resource:oak_log", "storage:base"}

NoLease == [resourceKey |-> "none", ownerBotId |-> "none", expiresAt |-> 0]

NoLockCall == [op |-> "none", key |-> "none", agent |-> "none", ok |-> FALSE, owner |-> "none"]

LockSt == [leases |-> leases, lockEvents |-> lockEvents, granted |-> granted]

\* this.leases.get(resourceKey)
LeaseOf(ls, k) ==
  IF \E i \in 1..Len(ls) : ls[i].resourceKey = k
  THEN ls[CHOOSE i \in 1..Len(ls) : ls[i].resourceKey = k]
  ELSE NoLease

\* this.leases.set(resourceKey, lease): a key of the Map keeps its place
SetLease(ls, lease) ==
  IF \E i \in 1..Len(ls) : ls[i].resourceKey = lease.resourceKey
  THEN [i \in 1..Len(ls) |-> IF ls[i].resourceKey = lease.resourceKey THEN lease ELSE ls[i]]
  ELSE Append(ls, lease)

\* this.leases.delete(resourceKey)
DeleteLease(ls, k) == SelectSeq(ls, LAMBDA x : x.resourceKey # k)

LockEvent(k, a, action) == [resourceKey |-> k, ownerBotId |-> a, action |-> action]

\* an expiry test that keeps a lease for the instant of its expires_at
ExpiredStrictly(lease, nowMs) == lease.expiresAt < nowMs

\* lease.expiresAt <= now
Expired(lease, nowMs) == lease.expiresAt <= nowMs

RECURSIVE ExpireEvents(_, _)
ExpireEvents(ls, nowMs) ==
  IF ls = <<>> THEN <<>>
  ELSE (IF Expired(Head(ls), nowMs)
        THEN <<LockEvent(Head(ls).resourceKey, Head(ls).ownerBotId, "EXPIRE")>>
        ELSE <<>>) \o ExpireEvents(Tail(ls), nowMs)

\* expireOldLeases()
ExpireOldLeases(l, nowMs) ==
  [l EXCEPT !.leases = SelectSeq(@, LAMBDA x : ~Expired(x, nowMs)),
            !.lockEvents = @ \o ExpireEvents(l.leases, nowMs)]

\* an acquire that never sees a conflict
NeverConflicts(current, a) == FALSE

\* current && current.ownerBotId !== ownerBotId
Conflicts(current, a) == current # NoLease /\ current.ownerBotId # a

\* acquire(resourceKey, ownerBotId)
Acquire(l, k, a, nowMs) ==
  LET l1 == ExpireOldLeases(l, nowMs)
      next == [resourceKey |-> k, ownerBotId |-> a, expiresAt |-> nowMs + LOCK_LEASE_MS]
  IN IF Conflicts(LeaseOf(l1.leases, k), a)
     THEN [st |-> l1, ok |-> FALSE]
     ELSE [st |-> [l1 EXCEPT !.leases = SetLease(@, next),
                             !.lockEvents = Append(@, LockEvent(k, a, "ACQUIRE")),
                             !.granted[k][a] = next.expiresAt],
           ok |-> TRUE]

\* an owner test that only looks for a lease
NoLeaseAtAll(current, a) == current = NoLease

\* !current || current.ownerBotId !== ownerBotId
NotOwnerOf(current, a) == current = NoLease \/ current.ownerBotId # a

\* heartbeat(resourceKey, ownerBotId)
Heartbeat(l, k, a, nowMs) ==
  LET current == LeaseOf(l.leases, k)
  IN IF NotOwnerOf(current, a)
     THEN [st |-> l, ok |-> FALSE]
     ELSE [st |-> [l EXCEPT !.leases =
                              SetLease(@, [current EXCEPT !.expiresAt = nowMs + LOCK_LEASE_MS]),
                            !.granted[k][a] = nowMs + LOCK_LEASE_MS],
           ok |-> TRUE]

\* release(resourceKey, ownerBotId); ok tells whether the lease was removed
Release(l, k, a) ==
  LET current == LeaseOf(l.leases, k)
  IN IF NotOwnerOf(current, a)
     THEN [st |-> l, ok |-> FALSE]
     ELSE [st |-> [l EXCEPT !.leases = DeleteLease(@, k),
                            !.lockEvents = Append(@, LockEvent(k, a, "RELEASE")),
                            !.granted[k][a] = 0],
           ok |-> TRUE]

\* ownerOf(resourceKey)
OwnerOf(l, k, nowMs) ==
  LET l1 == ExpireOldLeases(l, nowMs)
  IN [st |-> l1, owner |-> LeaseOf(l1.leases, k).ownerBotId]

CommitLocks(l, call) ==
  /\ Len(l.lockEvents) <= MaxLockEvents
  /\ leases' = l.leases
  /\ lockEvents' = l.lockEvents
  /\ granted' = l.granted
  /\ lockCall' = call

ConstructedLocks ==
  /\ leases = <<>>
  /\ lockEvents = <<>>
  /\ lockCall = NoLockCall
  /\ granted = [k \in LockKeys |-> [a \in Agents |-> 0]]

(***************************************************************************)
(* SkillEngine.execute: the lock of the subgoal around the skill handler.  *)
(***************************************************************************)
Execs == 1..MaxExecs

\* the keys of handlerMap
HandlerNames ==
  {"explore", "goto", "goto_nearest", "collect", "craft", "smelt", "deposit", "withdraw",
   "build_blueprint", "combat_engage", "combat_guard"}

\* the subgoals handed to execute: name and params.item
EngineSubgoals ==
  {[name |-> "collect", item |-> "oak_log"],
   [name |-> "collect", item |-> ""],
   [name |-> "explore", item |-> ""],
   [name |-> "dance", item |-> ""]}

\* lockKeyForSubgoal(subgoal); "none" is null
lockKeyForSubgoal(subgoal) ==
  IF subgoal.name = "collect"
  THEN (IF subgoal.item = "oak_log" THEN "resource:oak_log" ELSE "none")
  ELSE IF subgoal.name \in {"deposit", "withdraw"} THEN "storage:base"
  ELSE "none"

success == [outcome |-> "SUCCESS", errorCode |-> "none", retryable |-> FALSE]

\* failure(errorCode, details, retryable)
failure(errorCode, retryable) ==
  [outcome |-> "FAILURE", errorCode |-> errorCode, retryable |-> retryable]

\* failure(errorCode, details): retryable = true by default
failureByDefault(errorCode) == failure(errorCode, TRUE)

\* what a handler returns
HandlerResults == {success, failure("PATHFIND_FAILED", TRUE)}

\* what a handler throws: a structured failure (an object with errorCode) or another error
HandlerErrors ==
  {[hasErrorCode |-> TRUE, result |-> failure("INVENTORY_FULL", FALSE)],
   [hasErrorCode |-> FALSE, result |-> success]}

HandlerOutcomes ==
  {[thrown |-> FALSE, hasErrorCode |-> FALSE, result |-> r] : r \in HandlerResults}
  \cup {[thrown |-> TRUE, hasErrorCode |-> e.hasErrorCode, result |-> e.result] :
          e \in HandlerErrors}

NoExec == [pc |-> "idle", agent |-> "none", lockKey |-> "none", ticker |-> FALSE]

NoReturn == [agent |-> "none", lockKey |-> "none", path |-> "none", result |-> success]

\* try { return await handler(...) } catch (error) { ... }
TryCatch(outcome) ==
  IF ~outcome.thrown THEN outcome.result
  ELSE IF outcome.hasErrorCode THEN outcome.result
  ELSE failureByDefault("DEPENDS_ON_ITEM")

\* an exit that leaves the ticker running and the lock held
FinallySkipped(l, x) == [st |-> l, exec |-> x]

\* finally { lockHeartbeat?.stop(); if (lockKey) release(lockKey, botId) }
Finally(l, x) ==
  [st |-> IF x.lockKey # "none" THEN Release(l, x.lockKey, x.agent).st ELSE l,
   exec |-> [x EXCEPT !.ticker = FALSE]]

\* execute up to the await of the handler, or to its return before it
ExecuteBegin(e, a, subgoal) ==
  \E k \in {lockKeyForSubgoal(subgoal)} :
    IF subgoal.name \notin HandlerNames
    THEN /\ lastReturn' = [agent |-> a, lockKey |-> "none", path |-> "unsupported",
                           result |-> failure("DEPENDS_ON_ITEM", FALSE)]
         /\ UNCHANGED <<execs, lockVars>>
    ELSE IF k = "none"
    THEN /\ execs' = [execs EXCEPT ![e] = [pc |-> "handler", agent |-> a,
                                           lockKey |-> k, ticker |-> FALSE]]
         /\ UNCHANGED <<lastReturn, lockVars>>
    ELSE \E r \in {Acquire(LockSt, k, a, clock)} :
           /\ CommitLocks(r.st, [op |-> "acquire", key |-> k, agent |-> a, ok |-> r.ok,
                                 owner |-> "none"])
           /\ IF r.ok
              THEN /\ execs' = [execs EXCEPT ![e] = [pc |-> "handler", agent |-> a,
                                                     lockKey |-> k, ticker |-> TRUE]]
                   /\ UNCHANGED lastReturn
              ELSE /\ lastReturn' = [agent |-> a, lockKey |-> k, path |-> "locked",
                                     result |-> failure("DEPENDS_ON_ITEM", TRUE)]
                   /\ UNCHANGED execs

\* the interval callback of beginHeartbeat
HeartbeatTimer(e) ==
  \E r \in {Heartbeat(LockSt, execs[e].lockKey, execs[e].agent, clock)} :
    /\ CommitLocks(r.st, [op |-> "heartbeat", key |-> execs[e].lockKey,
                          agent |-> execs[e].agent, ok |-> r.ok, owner |-> "none"])
    /\ UNCHANGED engineVars

\* the handler settles: catch, finally, return
ExecuteEnd(e, outcome) ==
  \E f \in {Finally(LockSt, execs[e])} :
    /\ execs' = [execs EXCEPT ![e] = IF f.exec.ticker
                                      THEN [f.exec EXCEPT !.pc = "idle"]
                                      ELSE NoExec]
    /\ lastReturn' = [agent |-> execs[e].agent, lockKey |-> execs[e].lockKey,
                      path |-> IF ~outcome.thrown THEN "returned"
                               ELSE IF outcome.hasErrorCode THEN "thrown_failure"
                               ELSE "thrown",
                      result |-> TryCatch(outcome)]
    /\ CommitLocks(f.st, IF execs[e].lockKey = "none" THEN lockCall
                         ELSE [op |-> "release", key |-> execs[e].lockKey,
                               agent |-> execs[e].agent,
                               ok |-> f.st.leases # leases, owner |-> "none"])

ConstructedEngine ==
  /\ execs = [e \in Execs |-> NoExec]
  /\ lastReturn = NoReturn

(***************************************************************************)
(* The SkillLimiter shared by several agents, with the order of the calls. *)
(***************************************************************************)
SlotAgents == Agents \cup {"C"}

SlotSt == [active |-> active, waiting |-> waiting]

HasEntry(seq, b) == \E i \in 1..Len(seq) : seq[i].agent = b

\* the agents refused while the slot was occupied whose entry comes before the one of
\* b, or anywhere when b has none
Before(seq, b) ==
  {seq[i].agent : i \in {j \in 1..Len(seq) : /\ seq[j].agent # b
                                             /\ seq[j].occupied
                                             /\ \A h \in 1..j : seq[h].agent # b}}

Arrive(seq, b, occupied) ==
  IF HasEntry(seq, b) THEN seq ELSE Append(seq, [agent |-> b, occupied |-> occupied])

Depart(seq, b) == SelectSeq(seq, LAMBDA x : x.agent # b)

\* tryEnter(botId) by any agent
TryEnterBy(b) ==
  \E r \in {SkillLimiterTryEnter(SlotSt, b)} :
    /\ active' = r.st.active
    /\ waiting' = r.st.waiting
    /\ IF r.ok /\ b \notin active
       THEN /\ Len(admissions) < MaxAdmissions
            /\ admissions' = Append(admissions,
                                    [agent |-> b,
                                     waited |-> \E i \in 1..Len(arrivedAll) :
                                                  /\ arrivedAll[i].agent = b
                                                  /\ arrivedAll[i].occupied,
                                     overtook |-> Before(arrivedAll, b),
                                     jumped |-> Before(arrived, b)])
            /\ arrivedAll' = Depart(arrivedAll, b)
            /\ arrived' = Depart(arrived, b)
       ELSE IF ~r.ok
       THEN /\ arrivedAll' =
                 Arrive(arrivedAll, b, Cardinality(active) >= MAX_CONCURRENT_SKILLS)
            /\ arrived' = Arrive(arrived, b, Cardinality(active) >= MAX_CONCURRENT_SKILLS)
            /\ UNCHANGED admissions
       ELSE UNCHANGED slotVars

\* leave(botId) by any agent
LeaveBy(b) ==
  \E s \in {SkillLimiterLeave(SlotSt, b)} :
    /\ active' = s.active
    /\ waiting' = s.waiting
    /\ arrived' = Depart(arrived, b)
    /\ UNCHANGED <<arrivedAll, admissions>>

\* forget(botId) by any agent
ForgetBy(b) ==
  \E s \in {SkillLimiterForget(SlotSt, b)} :
    /\ active' = s.active
    /\ waiting' = s.waiting
    /\ arrived' = Depart(arrived, b)
    /\ UNCHANGED <<arrivedAll, admissions>>

ConstructedSlots ==
  /\ arrivedAll = <<>>
  /\ arrived = <<>>
  /\ admissions = <<>>

(***************************************************************************)
(* The state after construction.                                           *)
(***************************************************************************)
(***************************************************************************)
(* The feasibility guard (subgoal-guard.ts).  mcData is one catalog: a     *)
(* slice of the wood and stone progression, two recipes for stick, a ring  *)
(* of two recipes, a recipe that needs its own result, an ore whose tool   *)
(* is made of its drop, and a chain of recipes ten deep.                   *)
(***************************************************************************)
ChainItems == {"n0", "n1", "n2", "n3", "n4", "n5", "n6", "n7", "n8", "n9"}

ItemsByName ==
  {"oak_log", "oak_planks", "stick", "bamboo", "crafting_table", "wooden_pickaxe",
   "stone_pickaxe", "cobblestone", "ring_a", "ring_b", "loop", "shard", "shard_pick"}
    \cup ChainItems

BlocksByName == {"oak_log", "stone", "cobblestone", "crafting_table", "shard_ore"}

\* names the planner may send that the catalog does not know
UnknownNames == {"unobtainium"}

GuardNames == ItemsByName \cup BlocksByName \cup UnknownNames \cup {""}

\* an inventory of one kind of item
Inventory(itemName, count) ==
  [n \in GuardNames |-> IF n = itemName THEN count ELSE 0]

\* String.prototype.localeCompare on the names of the catalog
NameOrder ==
  <<"", "bamboo", "cobblestone", "crafting_table", "loop", "n0", "n1", "n2", "n3", "n4",
    "n5", "n6", "n7", "n8", "n9", "oak_log", "oak_planks", "ring_a", "ring_b", "shard",
    "shard_ore", "shard_pick", "stick", "stone", "stone_pickaxe", "unobtainium",
    "wooden_pickaxe">>

NameRank(name) == CHOOSE i \in 1..Len(NameOrder) : NameOrder[i] = name

\* block.drops, as item names
Drops(blockName) ==
  CASE blockName = "oak_log" -> <<"oak_log">>
    [] blockName = "stone" -> <<"cobblestone">>
    [] blockName = "cobblestone" -> <<"cobblestone">>
    [] blockName = "crafting_table" -> <<"crafting_table">>
    [] blockName = "shard_ore" -> <<"shard">>
    [] OTHER -> <<>>

\* block.harvestTools, as item names
HarvestTools(blockName) ==
  CASE blockName \in {"stone", "cobblestone"} -> {"wooden_pickaxe", "stone_pickaxe"}
    [] blockName = "shard_ore" -> {"shard_pick"}
    [] OTHER -> {}

Ingredient(name, units) == [name |-> name, units |-> units]

Recipe(ingredients, resultCount, needsTable) ==
  [ingredients |-> ingredients, resultCount |-> resultCount, needsTable |-> needsTable]

ChainSuccessor(name) ==
  CASE name = "n0" -> "n1" [] name = "n1" -> "n2" [] name = "n2" -> "n3"
    [] name = "n3" -> "n4" [] name = "n4" -> "n5" [] name = "n5" -> "n6"
    [] name = "n6" -> "n7" [] name = "n7" -> "n8" [] name = "n8" -> "n9"
    [] OTHER -> "oak_log"

\* mcData.recipes[item.id], each with parseIngredients, parseResultCount and
\* recipeNeedsTable applied
Recipes(itemName) ==
  CASE itemName = "oak_planks" -> <<Recipe(<<Ingredient("oak_log", 1)>>, 4, FALSE)>>
    [] itemName = "stick" -> <<Recipe(<<Ingredient("bamboo", 2)>>, 1, FALSE),
                               Recipe(<<Ingredient("oak_planks", 2)>>, 4, FALSE)>>
    [] itemName = "crafting_table" -> <<Recipe(<<Ingredient("oak_planks", 4)>>, 1, FALSE)>>
    [] itemName = "wooden_pickaxe" ->
         <<Recipe(<<Ingredient("oak_planks", 3), Ingredient("stick", 2)>>, 1, TRUE)>>
    [] itemName = "stone_pickaxe" ->
         <<Recipe(<<Ingredient("cobblestone", 3), Ingredient("stick", 2)>>, 1, TRUE)>>
    [] itemName = "ring_a" -> <<Recipe(<<Ingredient("ring_b", 1)>>, 1, FALSE)>>
    [] itemName = "ring_b" -> <<Recipe(<<Ingredient("ring_a", 1)>>, 1, FALSE)>>
    [] itemName = "loop" -> <<Recipe(<<Ingredient("loop", 2)>>, 1, FALSE)>>
    [] itemName = "shard_pick" -> <<Recipe(<<Ingredient("shard", 1)>>, 1, FALSE)>>
    [] itemName \in ChainItems -> <<Recipe(<<Ingredient(ChainSuccessor(itemName), 1)>>, 1, FALSE)>>
    [] OTHER -> <<>>

NoName == "none"
NoRecipe == [ingredients |-> <<>>, resultCount |-> 0, needsTable |-> FALSE]

Max(a, b) == IF a > b THEN a ELSE b

\* Math.ceil(a / b) for a >= 0, b > 0
CeilDiv(a, b) == (a + b - 1) \div b

\* positiveInt(value, fallback) on whole numbers; the caller passes the fallback
\* for a missing value
positiveInt(value, fallback) == IF value <= 0 THEN fallback ELSE value

\* params.count ?? params.amount ?? params.qty, through positiveInt(., 1)
parseDesiredCountFromSubgoal(subgoal) ==
  LET p == subgoal.params
  IN IF "count" \in DOMAIN p THEN positiveInt(p.count, 1)
     ELSE IF "amount" \in DOMAIN p THEN positiveInt(p.amount, 1)
     ELSE IF "qty" \in DOMAIN p THEN positiveInt(p.qty, 1)
     ELSE 1

\* String(params.item ?? params.block ?? params.resource ?? params.resource_type ?? params.type ?? "")
targetNameFromSubgoal(subgoal) ==
  LET p == subgoal.params
  IN IF "item" \in DOMAIN p THEN p.item
     ELSE IF "block" \in DOMAIN p THEN p.block
     ELSE IF "resource" \in DOMAIN p THEN p.resource
     ELSE IF "resource_type" \in DOMAIN p THEN p.resource_type
     ELSE IF "type" \in DOMAIN p THEN p.type
     ELSE ""

\* String(params.item ?? params.output ?? params.result ?? params.type ?? "")
craftItemName(subgoal) ==
  LET p == subgoal.params
  IN IF "item" \in DOMAIN p THEN p.item
     ELSE IF "output" \in DOMAIN p THEN p.output
     ELSE IF "result" \in DOMAIN p THEN p.result
     ELSE IF "type" \in DOMAIN p THEN p.type
     ELSE ""

\* createContext: the projected inventory, the nearest distance of each resource,
\* the distance of the nearest crafting table; and the notes and the records
\* kept of a run: every addProjected, and every planAcquireItem that went past
\* its cut-off
createContext(snapshot) ==
  [projected |-> snapshot.inventory,
   nearbyResourceDistance |-> snapshot.resources,
   tableDistance |-> snapshot.tableDistance,
   notes |-> <<>>,
   added |-> <<>>,
   entered |-> <<>>]

NoDistance == 9999

hasNearbyTable(ctx) == ctx.tableDistance # NoDistance /\ ctx.tableDistance <= 8

projectedCount(ctx, itemName) == ctx.projected[itemName]

hasItem(ctx, itemName, count) == projectedCount(ctx, itemName) >= count

pushNote(ctx, note, target) ==
  [ctx EXCEPT !.notes = Append(@, <<note, target>>)]

\* an addProjected that stores the count in the place of adding it
setProjected(ctx, itemName, count) ==
  [ctx EXCEPT !.projected[itemName] = count,
              !.added = Append(@, [item |-> itemName,
                                   before |-> projectedCount(ctx, itemName),
                                   after |-> count])]

addProjected(ctx, itemName, count) ==
  [ctx EXCEPT !.projected[itemName] = @ + count,
              !.added = Append(@, [item |-> itemName,
                                   before |-> projectedCount(ctx, itemName),
                                   after |-> projectedCount(ctx, itemName) + count])]

\* parseToolRank: wooden 0, stone 1; any other name is not a known tool
toolKnown(itemName) == itemName \in {"wooden_pickaxe", "stone_pickaxe"}

materialRank(itemName) ==
  CASE itemName = "wooden_pickaxe" -> 0
    [] itemName = "stone_pickaxe" -> 1
    [] OTHER -> 99

toolBefore(left, right) ==
  IF toolKnown(left) # toolKnown(right) THEN toolKnown(left)
  ELSE IF materialRank(left) # materialRank(right) THEN materialRank(left) < materialRank(right)
  ELSE NameRank(left) < NameRank(right)

\* a guard that takes no block to need a tool
noRequiredTool(blockName) == NoName

requiredToolForBlock(blockName) ==
  IF blockName \notin BlocksByName \/ HarvestTools(blockName) = {}
  THEN NoName
  ELSE CHOOSE t \in HarvestTools(blockName) :
         \A u \in HarvestTools(blockName) \ {t} : toolBefore(t, u)

RECURSIVE missingUnits(_, _, _)
missingUnits(ctx, ingredients, i) ==
  IF i > Len(ingredients) THEN 0
  ELSE Max(0, ingredients[i].units - projectedCount(ctx, ingredients[i].name))
         + missingUnits(ctx, ingredients, i + 1)

RECURSIVE ingredientUnits(_, _)
ingredientUnits(ingredients, i) ==
  IF i > Len(ingredients) THEN 0
  ELSE ingredients[i].units + ingredientUnits(ingredients, i + 1)

tableAccessible(ctx) == hasItem(ctx, "crafting_table", 1) \/ hasNearbyTable(ctx)

recipeScore(ctx, recipe) ==
  missingUnits(ctx, recipe.ingredients, 1)
    + (IF recipe.needsTable /\ ~tableAccessible(ctx) THEN 3 ELSE 0)

\* the comparator of the sort in pickRecipePlan: a strictly before b
recipeBefore(ctx, a, b) ==
  IF recipeScore(ctx, a) # recipeScore(ctx, b) THEN recipeScore(ctx, a) < recipeScore(ctx, b)
  ELSE IF a.needsTable # b.needsTable THEN ~a.needsTable
  ELSE ingredientUnits(a.ingredients, 1) < ingredientUnits(b.ingredients, 1)

\* ranked[0] of a stable sort: the first recipe that no other one comes before
pickRecipePlan(ctx, itemName) ==
  IF itemName \notin ItemsByName \/ Recipes(itemName) = <<>>
  THEN NoRecipe
  ELSE LET recipes == Recipes(itemName)
           best == CHOOSE i \in 1..Len(recipes) :
                     /\ \A j \in 1..Len(recipes) : ~recipeBefore(ctx, recipes[j], recipes[i])
                     /\ \A j \in 1..(i - 1) : recipeBefore(ctx, recipes[j], recipes[i])
                                                \/ recipeBefore(ctx, recipes[i], recipes[j])
       IN recipes[best]

InDrops(itemName, blockName) ==
  \E i \in 1..Len(Drops(blockName)) : Drops(blockName)[i] = itemName

sourceBlocksForItem(itemName) ==
  (IF itemName \in BlocksByName THEN {itemName} ELSE {})
    \cup (IF itemName \in ItemsByName
          THEN {b \in BlocksByName : InDrops(itemName, b)}
          ELSE {})

canMineNow(ctx, blockName) ==
  requiredToolForBlock(blockName) = NoName \/ hasItem(ctx, requiredToolForBlock(blockName), 1)

sourceBefore(ctx, a, b) ==
  IF canMineNow(ctx, a) # canMineNow(ctx, b) THEN canMineNow(ctx, a)
  ELSE IF ctx.nearbyResourceDistance[a] # ctx.nearbyResourceDistance[b]
       THEN ctx.nearbyResourceDistance[a] < ctx.nearbyResourceDistance[b]
  ELSE NameRank(a) < NameRank(b)

chooseSourceBlock(ctx, itemName) ==
  IF sourceBlocksForItem(itemName) = {}
  THEN NoName
  ELSE CHOOSE b \in sourceBlocksForItem(itemName) :
         \A c \in sourceBlocksForItem(itemName) \ {b} : sourceBefore(ctx, b, c)

primaryDroppedItemForBlock(blockName) ==
  IF blockName \notin BlocksByName THEN NoName
  ELSE IF Len(Drops(blockName)) > 0 THEN Drops(blockName)[1]
  ELSE IF blockName \in ItemsByName THEN blockName
  ELSE NoName

resolveBlockFromTarget(ctx, targetName) ==
  IF targetName = "" THEN NoName
  ELSE IF targetName \in BlocksByName THEN targetName
  ELSE chooseSourceBlock(ctx, targetName)

craftSubgoal(itemName, shortage, desiredCount) ==
  [name |-> "craft",
   params |-> [item |-> itemName, count |-> shortage],
   success_criteria |-> [item_count_gte |-> desiredCount]]

gotoNearestSubgoal(sourceBlock) ==
  [name |-> "goto_nearest",
   params |-> [block |-> sourceBlock, max_distance |-> 64],
   success_criteria |-> [found |-> TRUE]]

collectSubgoal(itemName, shortage, desiredCount) ==
  [name |-> "collect",
   params |-> [item |-> itemName, count |-> shortage],
   success_criteria |-> [item_count_gte |-> desiredCount]]

makeExploreFallback(target) ==
  [name |-> "explore",
   params |-> IF target = ""
              THEN [radius |-> 28, return_to_base |-> FALSE,
                    max_waypoints |-> 3, attempt_timeout_ms |-> 10000]
              ELSE [radius |-> 28, return_to_base |-> FALSE, resource_hint |-> target,
                    max_waypoints |-> 3, attempt_timeout_ms |-> 10000],
   success_criteria |-> [explored_points_min |-> 1]]

DepthLimit == 8

\* a cut-off that lets the recursion go one level deeper
cutOffOneDeeper(stack, itemName, depth) == depth > DepthLimit + 1 \/ itemName \in stack

\* depth > 8 || stack.has(itemName)
cutOff(stack, itemName, depth) == depth > DepthLimit \/ itemName \in stack

Planned(ctx, subgoals) == [ctx |-> ctx, subgoals |-> subgoals]

\* The({e : x \in {v}}) reads "let x be v in e": v is evaluated once
The(S) == CHOOSE x \in S : TRUE

Need(name, count) == [name |-> name, count |-> count]

\* what a recipe asks for, in the order planAcquireItem and ensureCraftPrerequisites
\* plan it: the crafting table when the recipe needs one and none is accessible,
\* then units * craftsNeeded of every ingredient
recipeNeeds(ctx, itemName, recipePlan, craftsNeeded) ==
  (IF recipePlan.needsTable /\ itemName # "crafting_table" /\ ~tableAccessible(ctx)
   THEN <<Need("crafting_table", 1)>>
   ELSE <<>>)
    \o [i \in 1..Len(recipePlan.ingredients) |->
          Need(recipePlan.ingredients[i].name, recipePlan.ingredients[i].units * craftsNeeded)]

RECURSIVE planAcquireItem(_, _, _, _, _)
RECURSIVE planEach(_, _, _, _, _)

\* the calls of planAcquireItem for the needs of a recipe, from the i-th one on
planEach(ctx, needs, i, stack, depth) ==
  IF i > Len(needs) THEN Planned(ctx, <<>>)
  ELSE CHOOSE planned \in
         {The({Planned(rest.ctx, first.subgoals \o rest.subgoals) :
                 rest \in {planEach(first.ctx, needs, i + 1, stack, depth)}}) :
            first \in {planAcquireItem(ctx, needs[i].name, needs[i].count, stack, depth)}} :
         TRUE

planAcquireItem(ctx, itemName, desiredCount, stack, depth) ==
  IF desiredCount <= 0 \/ hasItem(ctx, itemName, desiredCount)
  THEN Planned(ctx, <<>>)
  ELSE IF cutOff(stack, itemName, depth)
  THEN Planned(pushNote(ctx, "dependency_cycle_or_depth_limit", itemName), <<>>)
  ELSE
    LET shortage == Max(0, desiredCount - projectedCount(ctx, itemName))
        ctx0 == [ctx EXCEPT !.entered = Append(@, [item |-> itemName, depth |-> depth,
                                                   stack |-> stack])]
        recipePlan == pickRecipePlan(ctx, itemName)
        craftsNeeded == Max(1, CeilDiv(shortage, recipePlan.resultCount))
        sourceBlock == chooseSourceBlock(ctx, itemName)
        requiredTool == requiredToolForBlock(sourceBlock)
    IN IF recipePlan # NoRecipe
       THEN CHOOSE planned \in
              {Planned(addProjected(needed.ctx, itemName,
                                    craftsNeeded * recipePlan.resultCount),
                       Append(needed.subgoals,
                              craftSubgoal(itemName, shortage, desiredCount))) :
                 needed \in {planEach(ctx0,
                                      recipeNeeds(ctx, itemName, recipePlan, craftsNeeded),
                                      1, stack \cup {itemName}, depth + 1)}} :
              TRUE
       ELSE IF sourceBlock = NoName
       THEN Planned(pushNote(ctx0, "unresolved_dependency", itemName), <<>>)
       ELSE CHOOSE planned \in
              {Planned(addProjected(toolPlan.ctx, itemName, shortage),
                       toolPlan.subgoals
                         \o <<gotoNearestSubgoal(sourceBlock),
                              collectSubgoal(itemName, shortage, desiredCount)>>) :
                 toolPlan \in {IF requiredTool # NoName /\ ~hasItem(ctx, requiredTool, 1)
                               THEN planAcquireItem(ctx0, requiredTool, 1,
                                                    stack \cup {itemName}, depth + 1)
                               ELSE Planned(ctx0, <<>>)}} :
              TRUE

\* the item applyProjectedOutcome adds to: craft and withdraw add the count of
\* params.item ?? params.type; collect adds the count of the first drop of the
\* block; NoName: nothing is added
projectedOutcomeItem(ctx, subgoal) ==
  IF subgoal.name \in {"craft", "withdraw"}
  THEN LET p == subgoal.params
           itemName == IF "item" \in DOMAIN p THEN p.item
                       ELSE IF "type" \in DOMAIN p THEN p.type ELSE ""
       IN IF itemName # "" THEN itemName ELSE NoName
  ELSE IF subgoal.name = "collect"
  THEN The({The({IF dropped # NoName THEN dropped
                 ELSE IF targetNameFromSubgoal(subgoal) \in ItemsByName
                      THEN targetNameFromSubgoal(subgoal)
                 ELSE NoName :
                   dropped \in {IF blockName # NoName
                                THEN primaryDroppedItemForBlock(blockName)
                                ELSE NoName}}) :
              blockName \in {resolveBlockFromTarget(ctx, targetNameFromSubgoal(subgoal))}})
  ELSE NoName

applyProjectedOutcome(ctx, subgoal) ==
  The({IF itemName = NoName THEN ctx
       ELSE addProjected(ctx, itemName, parseDesiredCountFromSubgoal(subgoal)) :
         itemName \in {projectedOutcomeItem(ctx, subgoal)}})

ensureCraftPrerequisites(ctx, craftSubgoalIn) ==
  The({IF craftItemName(craftSubgoalIn) \notin ItemsByName \/ recipePlan = NoRecipe
       THEN Planned(ctx, <<>>)
       ELSE planEach(ctx,
                     recipeNeeds(ctx, craftItemName(craftSubgoalIn), recipePlan,
                                 Max(1, CeilDiv(parseDesiredCountFromSubgoal(craftSubgoalIn),
                                                recipePlan.resultCount))),
                     1, {}, 0) :
         recipePlan \in {pickRecipePlan(ctx, craftItemName(craftSubgoalIn))}})

sameSubgoal(prev, subgoal) ==
  /\ prev.name = subgoal.name
  /\ prev.params = subgoal.params
  /\ prev.success_criteria = subgoal.success_criteria

RECURSIVE dedupe(_, _, _)
dedupe(subgoals, i, output) ==
  IF i > Len(subgoals) THEN output
  ELSE IF Len(output) > 0 /\ sameSubgoal(output[Len(output)], subgoals[i])
  THEN dedupe(subgoals, i + 1, output)
  ELSE dedupe(subgoals, i + 1, Append(output, subgoals[i]))

dedupeAdjacentSubgoals(ctx, subgoals) ==
  The({Planned(IF Len(output) < Len(subgoals)
               THEN pushNote(ctx, "deduped_adjacent_subgoals", "")
               ELSE ctx,
               output) :
         output \in {dedupe(subgoals, 1, <<>>)}})

\* collect or goto_nearest whose target resolves to no block
guardUnresolved(ctx, subgoal, target) ==
  The({IF Len(replacement.subgoals) > 0
       THEN Planned(pushNote(replacement.ctx, "replaced_unresolved_collect", target),
                    replacement.subgoals)
       ELSE Planned(pushNote(replacement.ctx, "replaced_unresolved", target),
                    <<makeExploreFallback(target)>>) :
         replacement \in {IF subgoal.name = "collect" /\ target # ""
                          THEN planAcquireItem(ctx, target,
                                               parseDesiredCountFromSubgoal(subgoal), {}, 0)
                          ELSE Planned(ctx, <<>>)}})

\* collect or goto_nearest whose target resolves to blockName
guardResolved(ctx, subgoal, blockName) ==
  LET canonical == [subgoal EXCEPT !.params = ("block" :> blockName) @@ @]
  IN The({Planned(applyProjectedOutcome(toolPlan.ctx, canonical),
                  Append(toolPlan.subgoals, canonical)) :
            toolPlan \in {The({IF requiredTool # NoName /\ ~hasItem(ctx, requiredTool, 1)
                               THEN The({Planned(pushNote(planned.ctx, "inserted_tool_prereq",
                                                          requiredTool),
                                                 planned.subgoals) :
                                           planned \in {planAcquireItem(ctx, requiredTool, 1,
                                                                        {}, 0)}})
                               ELSE Planned(ctx, <<>>) :
                                 requiredTool \in {requiredToolForBlock(blockName)}})}})

\* craft of an item that has no recipe
guardUncraftable(ctx, subgoal, itemName) ==
  The({IF Len(replacement.subgoals) > 0
       THEN Planned(pushNote(replacement.ctx, "replaced_uncraftable_craft", itemName),
                    replacement.subgoals)
       ELSE Planned(pushNote(replacement.ctx, "replaced_unresolved_craft", itemName),
                    <<makeExploreFallback(itemName)>>) :
         replacement \in {planAcquireItem(ctx, itemName,
                                          parseDesiredCountFromSubgoal(subgoal), {}, 0)}})

\* one iteration of the loop of enforceSubgoalPrerequisites
guardOne(ctx, subgoal) ==
  IF subgoal.name \in {"collect", "goto_nearest"}
  THEN The({IF blockName = NoName
            THEN guardUnresolved(ctx, subgoal, targetNameFromSubgoal(subgoal))
            ELSE guardResolved(ctx, subgoal, blockName) :
              blockName \in {resolveBlockFromTarget(ctx, targetNameFromSubgoal(subgoal))}})
  ELSE IF subgoal.name = "craft"
  THEN IF craftItemName(subgoal) = ""
       THEN Planned(pushNote(ctx, "dropped_invalid_craft_without_item", ""), <<>>)
       ELSE IF pickRecipePlan(ctx, craftItemName(subgoal)) = NoRecipe
       THEN guardUncraftable(ctx, subgoal, craftItemName(subgoal))
       ELSE The({Planned(applyProjectedOutcome(prereqs.ctx, subgoal),
                         Append(prereqs.subgoals, subgoal)) :
                   prereqs \in {ensureCraftPrerequisites(ctx, subgoal)}})
  ELSE Planned(applyProjectedOutcome(ctx, subgoal), <<subgoal>>)

RECURSIVE guardFrom(_, _, _)
guardFrom(ctx, subgoals, i) ==
  IF i > Len(subgoals) THEN Planned(ctx, <<>>)
  ELSE The({The({Planned(rest.ctx, first.subgoals \o rest.subgoals) :
                   rest \in {guardFrom(first.ctx, subgoals, i + 1)}}) :
              first \in {guardOne(ctx, subgoals[i])}})

enforceSubgoalPrerequisites(snapshot, subgoals) ==
  The({dedupeAdjacentSubgoals(guarded.ctx, guarded.subgoals) :
         guarded \in {guardFrom(createContext(snapshot), subgoals, 1)}})

(***************************************************************************)
(* The subgoal normalizer.  A value of a params object is a record with    *)
(* its JavaScript type; a number is held in halves, so that 2.5 is 5 and   *)
(* Math.floor and Math.round have something to cut.  A missing key reads   *)
(* as Undefined.                                                           *)
(***************************************************************************)
Str(s) == [type |-> "string", text |-> s]
Num(halves) == [type |-> "number", finite |-> TRUE, halves |-> halves]
Whole(n) == Num(2 * n)
NotANumber == [type |-> "number", finite |-> FALSE, halves |-> 0]
Null == [type |-> "null"]
Undefined == [type |-> "undefined"]
Obj(x, y, z) == [type |-> "object", x |-> x, y |-> y, z |-> z]

\* the strings of the params the normalizer is checked on
NormalizerStrings == {"oak_log", " oak_log ", "coal", "  ", "", "3"}

\* String.prototype.trim on these strings
trim(s) ==
  CASE s = " oak_log " -> "oak_log"
    [] s = "  " -> ""
    [] OTHER -> s

\* Number(value): a blank string and null are 0, a numeral its number, the rest NaN
Number(value) ==
  CASE value.type = "number" -> value
    [] value.type = "null" -> Whole(0)
    [] value.type = "string" ->
         IF trim(value.text) = "" THEN Whole(0)
         ELSE IF trim(value.text) = "3" THEN Whole(3)
         ELSE NotANumber
    [] OTHER -> NotANumber

\* params[key]
Get(params, key) == IF key \in DOMAIN params THEN params[key] ELSE Undefined

\* a ?? b ?? c
RECURSIVE Coalesce(_)
Coalesce(values) ==
  IF Len(values) = 1 \/ Head(values).type \notin {"null", "undefined"}
  THEN Head(values)
  ELSE Coalesce(Tail(values))

\* Math.floor of a number in halves, as a number in halves
floor(halves) == 2 * (halves \div 2)

\* a rounding that always goes to the next integer
floorPlusOne(halves) == 2 * (halves \div 2) + 2

\* Math.round of a number in halves: the half goes up
round(halves) == 2 * ((halves + 1) \div 2)

asPositiveInt(value, fallback) ==
  LET parsed == Number(value)
  IN IF ~parsed.finite \/ parsed.halves <= 0
     THEN Whole(fallback)
     ELSE Num(Max(2, floor(parsed.halves)))

asFiniteNumber(value, fallback) ==
  LET parsed == Number(value)
  IN IF ~parsed.finite THEN fallback ELSE parsed

\* the first value that is a string with something left after trim, trimmed; else null
RECURSIVE pickString(_)
pickString(values) ==
  IF values = <<>> THEN Null
  ELSE IF Head(values).type = "string" /\ trim(Head(values).text) # ""
  THEN Str(trim(Head(values).text))
  ELSE pickString(Tail(values))

\* a normalize function returns <<>> for null and <<subgoal>> for a subgoal
normalizeCollect(subgoal) ==
  LET p == subgoal.params
      target == pickString(<<Get(p, "item"), Get(p, "block"), Get(p, "resource"),
                             Get(p, "resource_type"), Get(p, "type")>>)
      params == [block |-> target,
                 count |-> asPositiveInt(
                   Coalesce(<<Get(p, "count"), Get(p, "amount"), Get(p, "qty")>>), 1)]
  IN IF target = Null THEN <<>>
     ELSE IF Number(Get(p, "max_distance")).finite
     THEN <<[subgoal EXCEPT !.params =
               ("max_distance" :> asPositiveInt(Get(p, "max_distance"), 48)) @@ params]>>
     ELSE <<[subgoal EXCEPT !.params = params]>>

normalizeGotoNearest(subgoal) ==
  LET p == subgoal.params
      target == pickString(<<Get(p, "block"), Get(p, "resource"),
                             Get(p, "resource_type"), Get(p, "type")>>)
  IN IF target = Null THEN <<>>
     ELSE <<[subgoal EXCEPT !.params =
               [block |-> target,
                max_distance |-> asPositiveInt(Get(p, "max_distance"), 48)]]>>

normalizeCraftLike(subgoal, key) ==
  LET p == subgoal.params
      target == pickString(<<Get(p, "item"), Get(p, "output"), Get(p, "result"),
                             Get(p, "type"), Get(p, "input"), Get(p, "resource")>>)
      params == (key :> target) @@
                [count |-> asPositiveInt(
                   Coalesce(<<Get(p, "count"), Get(p, "amount"), Get(p, "qty")>>), 1)]
  IN IF target = Null THEN <<>>
     ELSE IF key = "input" /\ Get(p, "fuel").type = "string"
     THEN <<[subgoal EXCEPT !.params = ("fuel" :> p.fuel) @@ params]>>
     ELSE <<[subgoal EXCEPT !.params = params]>>

normalizeGoto(subgoal) ==
  LET p == subgoal.params
      location == IF Get(p, "location").type = "object" THEN p.location
                  ELSE Obj(Undefined, Undefined, Undefined)
      x == asFiniteNumber(Coalesce(<<Get(p, "x"), location.x>>), NotANumber)
      y == asFiniteNumber(Coalesce(<<Get(p, "y"), location.y>>), NotANumber)
      z == asFiniteNumber(Coalesce(<<Get(p, "z"), location.z>>), NotANumber)
  IN IF ~x.finite \/ ~y.finite \/ ~z.finite THEN <<>>
     ELSE <<[subgoal EXCEPT !.params =
               [x |-> Num(round(x.halves)),
                y |-> Num(round(y.halves)),
                z |-> Num(round(z.halves)),
                range |-> asPositiveInt(Get(p, "range"), 2)]]>>

\* the switch of normalizePlannerSubgoals
normalizeOne(subgoal) ==
  CASE subgoal.name = "collect" -> normalizeCollect(subgoal)
    [] subgoal.name = "goto_nearest" -> normalizeGotoNearest(subgoal)
    [] subgoal.name \in {"craft", "withdraw"} -> normalizeCraftLike(subgoal, "item")
    [] subgoal.name = "smelt" -> normalizeCraftLike(subgoal, "input")
    [] subgoal.name = "goto" -> normalizeGoto(subgoal)
    [] OTHER -> <<subgoal>>

\* the names whose case builds a new object, so that mapped !== subgoal
Rebuilt == {"collect", "goto_nearest", "craft", "withdraw", "smelt", "goto"}

\* the loop of normalizePlannerSubgoals from position index (counted from 1) on
RECURSIVE normalizeFrom(_, _)
normalizeFrom(subgoals, index) ==
  IF index > Len(subgoals) THEN [subgoals |-> <<>>, notes |-> <<>>]
  ELSE LET subgoal == subgoals[index]
           mapped == normalizeOne(subgoal)
           rest == normalizeFrom(subgoals, index + 1)
       IN IF mapped = <<>>
          THEN [subgoals |-> rest.subgoals,
                notes |-> <<[note |-> "dropped_invalid_subgoal", index |-> index - 1,
                             name |-> subgoal.name]>> \o rest.notes]
          ELSE [subgoals |-> mapped \o rest.subgoals,
                notes |-> IF subgoal.name \in Rebuilt
                          THEN <<[note |-> "normalized_subgoal", index |-> index - 1,
                                  name |-> subgoal.name]>> \o rest.notes
                          ELSE rest.notes]

normalizePlannerSubgoals(subgoals) == normalizeFrom(subgoals, 1)

\* the subgoal lists the normalizer is checked on
Raw(name, params) == [name |-> name, params |-> params]

NormalizerSubgoals ==
  {Raw("collect", [item |-> Str(" oak_log "), amount |-> Num(5), max_distance |-> Whole(-3)]),
   Raw("collect", [item |-> Str("  "), block |-> Str("coal"), count |-> Str("3")]),
   Raw("collect", [type |-> Str(""), count |-> Whole(1)]),
   Raw("collect", [resource |-> Str("oak_log"), count |-> Num(1), max_distance |-> Null]),
   Raw("collect", [item |-> Whole(3), resource_type |-> Str("coal"), count |-> Null,
                   qty |-> Num(7), max_distance |-> Str("oak_log")]),
   Raw("goto_nearest", [resource_type |-> Str(" oak_log ")]),
   Raw("goto_nearest", [block |-> Str("coal"), max_distance |-> Num(15)]),
   Raw("goto_nearest", [item |-> Str("coal")]),
   Raw("craft", [output |-> Str("oak_log"), count |-> Null, qty |-> Num(7)]),
   Raw("withdraw", [item |-> Str("coal"), count |-> Whole(-1), fuel |-> Str("coal")]),
   Raw("smelt", [input |-> Str(" oak_log "), fuel |-> Str("coal"), count |-> Whole(2)]),
   Raw("smelt", [item |-> Str("oak_log"), input |-> Str("coal"), fuel |-> Whole(1)]),
   Raw("goto", [x |-> Num(3), y |-> Num(-1), z |-> Str("3"), range |-> Whole(0)]),
   Raw("goto", [location |-> Obj(Num(5), Whole(64), Num(-3)), x |-> Null]),
   Raw("goto", [x |-> Whole(1), y |-> Str("oak_log"), z |-> Whole(1)]),
   Raw("explore", [radius |-> Num(5)])}

NormalizerPlans ==
  {<<a>> : a \in NormalizerSubgoals}
    \cup {<<a, b>> : a \in NormalizerSubgoals, b \in NormalizerSubgoals}

(***************************************************************************)
(* The fallback planner: buildFallbackPlan and the autonomous progression  *)
(* plan it ends with.  A snapshot of the planner service has, beside the   *)
(* fields the guard reads, player.health, the inventory load (blocks plus  *)
(* the sum of key_items) and the distances of the hostiles.                *)
(***************************************************************************)
DesiredIncrement == 8
BasePosition == [x |-> 0, y |-> 64, z |-> 0, radius |-> 16]

\* [...snapshot.nearby_summary.resources].sort by distance, one entry for a type
resourceBefore(snapshot, a, b) ==
  \/ snapshot.resources[a] < snapshot.resources[b]
  \/ snapshot.resources[a] = snapshot.resources[b] /\ NameRank(a) < NameRank(b)

sortedResources(snapshot) ==
  LET nearby == {b \in BlocksByName : snapshot.resources[b] # NoDistance}
  IN CHOOSE s \in [1..Cardinality(nearby) -> nearby] :
       \A i, j \in 1..Cardinality(nearby) : i < j => resourceBefore(snapshot, s[i], s[j])

\* buildCapabilityGaps: the resources whose tool is missing, with the tool
buildCapabilityGaps(ctx, resources) ==
  LET Gap(b) == requiredToolForBlock(b) # NoName /\ ~hasItem(ctx, requiredToolForBlock(b), 1)
      gaps == SelectSeq(resources, Gap)
  IN [i \in 1..Len(gaps) |-> [resource |-> gaps[i], requiredTool |-> requiredToolForBlock(gaps[i])]]

Progression(reason, target, subgoals) ==
  [reason |-> <<reason, target>>, subgoals |-> subgoals]

\* the loop over the capability gaps: the first tool that can be planned for
RECURSIVE unlockFrom(_, _, _)
unlockFrom(ctx, gaps, i) ==
  IF i > Len(gaps) THEN [found |-> FALSE, ctx |-> ctx]
  ELSE IF hasItem(ctx, gaps[i].requiredTool, 1) THEN unlockFrom(ctx, gaps, i + 1)
  ELSE The({IF Len(unlock.subgoals) > 0
            THEN [found |-> TRUE, ctx |-> unlock.ctx,
                  plan |-> Progression("unlock", <<gaps[i].requiredTool, gaps[i].resource>>,
                                       unlock.subgoals)]
            ELSE unlockFrom(unlock.ctx, gaps, i + 1) :
              unlock \in {planAcquireItem(ctx, gaps[i].requiredTool, 1, {}, 0)}})

\* a candidate of the progression: an actionable resource whose drop is short
candidateShortage(ctx, b) ==
  Max(0, DesiredIncrement - projectedCount(ctx, primaryDroppedItemForBlock(b)))

isCandidate(ctx, b) ==
  /\ primaryDroppedItemForBlock(b) # NoName
  /\ requiredToolForBlock(b) = NoName \/ hasItem(ctx, requiredToolForBlock(b), 1)
  /\ candidateShortage(ctx, b) > 0

\* the sort of the candidates: shortage descending, then distance
candidateBefore(ctx, snapshot, a, b) ==
  \/ candidateShortage(ctx, a) > candidateShortage(ctx, b)
  \/ candidateShortage(ctx, a) = candidateShortage(ctx, b) /\ resourceBefore(snapshot, a, b)

sortedCandidates(ctx, snapshot) ==
  LET candidates == {b \in BlocksByName :
                       snapshot.resources[b] # NoDistance /\ isCandidate(ctx, b)}
  IN CHOOSE s \in [1..Cardinality(candidates) -> candidates] :
       \A i, j \in 1..Cardinality(candidates) :
         i < j => candidateBefore(ctx, snapshot, s[i], s[j])

exploreForResources ==
  [reason |-> <<"explore_for_resources", <<>>>>,
   subgoals |-> <<[name |-> "explore",
                   params |-> [radius |-> 26, return_to_base |-> FALSE],
                   success_criteria |-> [explored_points_min |-> 2]]>>]

\* the loop over the candidates: the first one that can be planned for.  The
\* shortage and the count in hand are those of the context before the loop.
RECURSIVE acquireFrom(_, _, _, _)
acquireFrom(ctx, candidates, desired, i) ==
  IF i > Len(candidates) THEN exploreForResources
  ELSE The({IF Len(planned.subgoals) > 0
            THEN Progression("acquire", primaryDroppedItemForBlock(candidates[i]),
                             planned.subgoals)
            ELSE acquireFrom(planned.ctx, candidates, desired, i + 1) :
              planned \in {planAcquireItem(ctx, primaryDroppedItemForBlock(candidates[i]),
                                           desired[i], {}, 0)}})

buildAutonomousProgressionPlan(snapshot) ==
  The({IF unlocked.found THEN unlocked.plan
       ELSE The({acquireFrom(unlocked.ctx, candidates,
                             [i \in 1..Len(candidates) |->
                                Max(DesiredIncrement,
                                    projectedCount(unlocked.ctx,
                                                   primaryDroppedItemForBlock(candidates[i]))
                                      + candidateShortage(unlocked.ctx, candidates[i]))],
                             1) :
                   candidates \in {sortedCandidates(unlocked.ctx, snapshot)}}) :
         unlocked \in {unlockFrom(createContext(snapshot),
                                  buildCapabilityGaps(createContext(snapshot),
                                                      sortedResources(snapshot)),
                                  1)}})

gotoBase ==
  [name |-> "goto",
   params |-> [x |-> BasePosition.x, y |-> BasePosition.y, z |-> BasePosition.z,
               range |-> BasePosition.radius],
   success_criteria |-> [within_range |-> BasePosition.radius]]

buildFallbackPlan(snapshot, reason) ==
  IF snapshot.health <= 8
  THEN [next_goal |-> <<"stabilize_and_recover", <<>>>>,
        risk_flags |-> <<reason, "LOW_HEALTH">>,
        subgoals |-> <<gotoBase,
                       [name |-> "combat_guard",
                        params |-> [radius |-> 12, duration_ms |-> 6000],
                        success_criteria |-> [no_hostiles_within |-> 12]]>>]
  ELSE IF snapshot.load >= 120
  THEN [next_goal |-> <<"deposit_inventory", <<>>>>,
        risk_flags |-> <<reason, "INVENTORY_PRESSURE">>,
        subgoals |-> <<gotoBase,
                       [name |-> "deposit",
                        params |-> [strategy |-> "all_non_essential"],
                        success_criteria |-> [free_slots_min |-> 16]]>>]
  ELSE IF Len(snapshot.hostiles) > 0 /\ snapshot.hostiles[1] < 10
  THEN [next_goal |-> <<"clear_local_threats", <<>>>>,
        risk_flags |-> <<reason, "HOSTILES_NEARBY">>,
        subgoals |-> <<[name |-> "combat_engage",
                        params |-> [max_targets |-> 2, max_distance |-> 18],
                        success_criteria |-> [hostiles_within |-> 10, equals |-> 0]]>>]
  ELSE The({[next_goal |-> progression.reason,
             risk_flags |-> <<reason>>,
             subgoals |-> progression.subgoals] :
              progression \in {buildAutonomousProgressionPlan(snapshot)}})

(***************************************************************************)
(* PlannerService.plan.  The call is suspended at generateJson and at the  *)
(* sleep between two tries; what runs between two awaits is one step.      *)
(***************************************************************************)
PlannerOptions ==
  {[maxRetries |-> 0, feasibilityRepromptEnabled |-> TRUE,
    feasibilityRepromptMaxAttempts |-> 1],
   [maxRetries |-> 0, feasibilityRepromptEnabled |-> TRUE,
    feasibilityRepromptMaxAttempts |-> 2],
   [maxRetries |-> 1, feasibilityRepromptEnabled |-> TRUE,
    feasibilityRepromptMaxAttempts |-> 1],
   [maxRetries |-> 0, feasibilityRepromptEnabled |-> FALSE,
    feasibilityRepromptMaxAttempts |-> 1]}

PlannerSnapshot(inventory, health, load, hostiles) ==
  [inventory |-> inventory,
   resources |-> [b \in BlocksByName |-> IF b = "stone" THEN 5 ELSE NoDistance],
   tableDistance |-> NoDistance,
   health |-> health, load |-> load, hostiles |-> hostiles]

PlannerSnapshots ==
  {PlannerSnapshot(Inventory("", 0), 20, 0, <<>>),
   PlannerSnapshot(Inventory("wooden_pickaxe", 1), 20, 1, <<12>>),
   PlannerSnapshot(Inventory("", 0), 8, 0, <<>>),
   PlannerSnapshot(Inventory("cobblestone", 5), 20, 120, <<>>),
   PlannerSnapshot(Inventory("oak_log", 1), 20, 1, <<9, 12>>)}

\* what the model answers: parsed.next_goal and parsed.subgoals
LlmSubgoal(name, params, count) ==
  [name |-> name, params |-> params, success_criteria |-> [item_count_gte |-> count]]

LlmPlans ==
  {[next_goal |-> "gather stone",
    subgoals |-> <<LlmSubgoal("collect", [block |-> Str("stone"), count |-> Whole(2)], 2)>>],
   [next_goal |-> "craft something",
    subgoals |-> <<LlmSubgoal("craft", [item |-> Str("  "), count |-> Whole(1)], 1)>>],
   [next_goal |-> "make planks",
    subgoals |-> <<LlmSubgoal("craft", [output |-> Str("oak_planks"), qty |-> Num(3)], 1)>>],
   [next_goal |-> "logs then planks",
    subgoals |-> <<LlmSubgoal("collect", [item |-> Str(" oak_log "), amount |-> Num(3)], 1),
                   LlmSubgoal("craft", [item |-> Str("oak_planks"), count |-> Whole(1)], 1)>>]}

\* what comes back from one try of callModelWithPrompt: generateJson rejects, the
\* text is no JSON, the JSON fails the schema, or it is a plan
LlmOutcomes ==
  {[kind |-> "rejected"], [kind |-> "unparsable"], [kind |-> "invalid"]}
    \cup {[kind |-> "plan", plan |-> plan] : plan \in LlmPlans}

\* a normalized subgoal as the guard reads it: the strings and the whole numbers
\* of its params
guardValue(value) == IF value.type = "string" THEN value.text ELSE value.halves \div 2

guardSubgoal(subgoal) ==
  [subgoal EXCEPT !.params = [k \in DOMAIN subgoal.params |-> guardValue(subgoal.params[k])]]

guardSubgoals(subgoals) == [i \in 1..Len(subgoals) |-> guardSubgoal(subgoals[i])]

\* the notes of the guard, as records like those of the normalizer
guardNotes(notes) == [i \in 1..Len(notes) |-> [note |-> notes[i][1], target |-> notes[i][2]]]

Note(note) == [note |-> note]
NoteN(note, n) == [note |-> note, n |-> n]

ConsumeEvent(d) == [event |-> "consume", allowed |-> d.allowed, reason |-> d.reason, at |-> d.at]
GenerateEvent(mode, attempt, nowMs) ==
  [event |-> "generateJson", mode |-> mode, attempt |-> attempt, at |-> nowMs]

\* no call of plan is in flight
PlannerIdle ==
  [pc |-> "idle", bot |-> "none", mode |-> "none", attempt |-> 0, repromptAttempt |-> 0,
   next_goal |-> "", normalizedSubgoals |-> <<>>, guarded |-> <<>>, guardedInitial |-> <<>>,
   notes |-> <<>>, lastError |-> "none", trace |-> <<>>, thrown |-> <<>>]

\* what plan returned or raised, with what the call did on the way
PlanResult(st, status, response, notes) ==
  [status |-> status, response |-> response, notes |-> notes, bot |-> st.bot,
   trace |-> st.trace, thrown |-> st.thrown,
   guardedInitial |-> st.guardedInitial, guarded |-> st.guarded,
   lastError |-> st.lastError]

\* validatePlannerRequest raises
SchemaError(b) ==
  PlanResult([PlannerIdle EXCEPT !.bot = b], "RAISED", <<>>, <<>>)

\* a test of the budget that lets every call through
budgetNeverDenied(budget) == FALSE

\* !budget.allowed
budgetDenied(budget) == ~budget.allowed

\* the return of RATE_LIMITED
RateLimited(snapshot, st, budget) ==
  PlanResult(st, "RATE_LIMITED", buildFallbackPlan(snapshot, <<"RATE_LIMIT", budget.reason>>),
             <<>>)

\* an outer catch that raises the error again
PlannerErrorRaised(snapshot, st, message) ==
  PlanResult([st EXCEPT !.lastError = message], "RAISED", <<>>, <<>>)

\* the outer catch and the return of FALLBACK
PlannerError(snapshot, st, message) ==
  PlanResult([st EXCEPT !.lastError = message], "FALLBACK",
             buildFallbackPlan(snapshot, <<"PLANNER_ERROR", message>>), <<>>)

\* the end of the try block: the throw on an empty guarded plan, or SUCCESS
Finish(snapshot, st) ==
  IF st.guarded = <<>>
  THEN PlannerError(snapshot,
                    [st EXCEPT !.thrown = Append(@, [mode |-> "guard",
                                                     error |-> "guarded planner output empty"])],
                    "guarded planner output empty")
  ELSE PlanResult(st, "SUCCESS", [next_goal |-> st.next_goal, subgoals |-> st.guarded],
                  st.notes)

\* the error of one try of callModelWithPrompt, "none" when it returns a plan
tryError(outcome) ==
  CASE outcome.kind = "rejected" -> "generateJson failed"
    [] outcome.kind = "unparsable" -> "JSON.parse failed"
    [] outcome.kind = "invalid" -> "SCHEMA"
    [] normalizePlannerSubgoals(outcome.plan.subgoals).subgoals = <<>> ->
         "planner produced no executable subgoals"
    [] OTHER -> "none"

\* plansEquivalent: the signatures of name, params and success_criteria, pairwise
plansEquivalent(left, right) ==
  /\ Len(left) = Len(right)
  /\ \A i \in 1..Len(left) :
       /\ left[i].name = right[i].name
       /\ left[i].params = right[i].params
       /\ left[i].success_criteria = right[i].success_criteria

\* callModelWithPrompt has raised: the last try failed and no retry is left
modelRaised(options, st, error) ==
  IF st.mode = "initial"
  THEN [next |-> "raise", error |-> error,
        st |-> [st EXCEPT !.thrown = Append(@, [mode |-> st.mode, error |-> error])]]
  ELSE [next |-> "reprompt", error |-> error,
        st |-> [st EXCEPT !.thrown = Append(@, [mode |-> st.mode, error |-> error]),
                          !.notes = Append(@, NoteN("feasibility_reprompt_error",
                                                    st.repromptAttempt + 1)),
                          !.lastError = error,
                          !.repromptAttempt = @ + 1]]

\* callModelWithPrompt has returned a plan: the guard, the comparison, the notes
modelReturned(options, snapshot, st, plan) ==
  The({The({IF st.mode = "initial"
            THEN [next |-> IF /\ options.feasibilityRepromptEnabled
                              /\ options.feasibilityRepromptMaxAttempts > 0
                              /\ ~plansEquivalent(subgoals, guarded.subgoals)
                           THEN "reprompt" ELSE "finish",
                  error |-> "none",
                  st |-> [st EXCEPT
                    !.next_goal = plan.next_goal,
                    !.normalizedSubgoals = subgoals,
                    !.guarded = guarded.subgoals,
                    !.guardedInitial = guarded.subgoals,
                    !.repromptAttempt = 0,
                    !.notes = normalized.notes \o guardNotes(guarded.ctx.notes)
                                \o (IF plansEquivalent(subgoals, guarded.subgoals) THEN <<>>
                                    ELSE <<Note("guard_adjusted_initial_plan")>>)]]
            ELSE [next |-> IF plansEquivalent(subgoals, guarded.subgoals)
                           THEN "finish" ELSE "reprompt",
                  error |-> "none",
                  st |-> [st EXCEPT
                    !.next_goal = plan.next_goal,
                    !.normalizedSubgoals = subgoals,
                    !.guarded = guarded.subgoals,
                    !.repromptAttempt = IF plansEquivalent(subgoals, guarded.subgoals)
                                        THEN @ ELSE @ + 1,
                    !.notes = @ \o <<NoteN("feasibility_reprompt_attempt",
                                           st.repromptAttempt + 1)>>
                                \o normalized.notes \o guardNotes(guarded.ctx.notes)
                                \o (IF plansEquivalent(subgoals, guarded.subgoals)
                                    THEN <<Note("feasibility_reprompt_resolved")>>
                                    ELSE <<Note("feasibility_reprompt_still_adjusted")>>)]] :
              guarded \in {enforceSubgoalPrerequisites(snapshot, subgoals)}}) :
         normalized \in {normalizePlannerSubgoals(plan.subgoals)},
         subgoals \in {guardSubgoals(normalizePlannerSubgoals(plan.subgoals).subgoals)}})

\* plan from the return of generateJson to the next await or to its return, as
\* far as the next consume: what to do next, and the call as it then stands
afterGenerate(options, snapshot, st, outcome) ==
  IF tryError(outcome) # "none"
  THEN IF st.attempt >= options.maxRetries
       THEN modelRaised(options, st, tryError(outcome))
       ELSE [next |-> "sleep", error |-> tryError(outcome),
             st |-> [st EXCEPT !.attempt = @ + 1, !.pc = "sleep"]]
  ELSE modelReturned(options, snapshot, st, outcome.plan)

\* a test of the reprompt budget that lets every repair call through
repromptNeverDenied(budget) == FALSE

\* !repromptBudget.allowed
repromptDenied(budget) == ~budget.allowed

\* the call of generateJson for the next prompt
generate(st, mode, nowMs) ==
  [st EXCEPT !.pc = "generateJson", !.mode = mode, !.attempt = 0,
             !.trace = Append(@, GenerateEvent(mode, 0, nowMs))]

(***************************************************************************)
(* The action history of one agent: executeNextSubgoal appends an entry    *)
(* in the job that resumes after skillEngine.execute.                      *)
(***************************************************************************)
HistoryRuns == 1..MaxHistoryRuns

\* ActionHistoryBuffer.add with unshift in the place of push
ActionHistoryBufferAddFront(entries, entry) ==
  LET pushed == <<entry>> \o entries
  IN IF Len(pushed) > LLM_HISTORY_LIMIT
     THEN SubSeq(pushed, Len(pushed) - LLM_HISTORY_LIMIT + 1, Len(pushed))
     ELSE pushed

\* ActionHistoryBuffer.add: push, then splice(0, length - limit)
ActionHistoryBufferAdd(entries, entry) ==
  LET pushed == Append(entries, entry)
  IN IF Len(pushed) > LLM_HISTORY_LIMIT
     THEN SubSeq(pushed, Len(pushed) - LLM_HISTORY_LIMIT + 1, Len(pushed))
     ELSE pushed

\* the entry built after the await: timestamp = nowIso() of the resuming job
HistoryEntry(subgoalId, outcome, nowMs) ==
  [subgoal |-> subgoalId, outcome |-> outcome, timestamp |-> nowMs]

\* executeNextSubgoal up to the await of skillEngine.execute
BeginRun(subgoalId) ==
  /\ subgoalId \notin pendingRuns
  /\ \A i \in 1..Len(completions) : completions[i].subgoal # subgoalId
  /\ pendingRuns' = pendingRuns \cup {subgoalId}
  /\ UNCHANGED <<history, completions>>

\* executeNextSubgoal from the return of skillEngine.execute to history.add;
\* botPresent = FALSE: this.bot is null and `this.bot.health` raises
EndRun(subgoalId, outcome, botPresent) ==
  /\ subgoalId \in pendingRuns
  /\ pendingRuns' = pendingRuns \ {subgoalId}
  /\ completions' = Append(completions,
                           [subgoal |-> subgoalId, at |-> clock, recorded |-> botPresent])
  /\ history' = IF botPresent
                THEN ActionHistoryBufferAdd(history, HistoryEntry(subgoalId, outcome, clock))
                ELSE history

ConstructedHistory ==
  /\ history = <<>>
  /\ pendingRuns = {}
  /\ completions = <<>>

\* the snapshots and plans the guard is checked on
GuardInventories ==
  {Inventory("", 0), Inventory("oak_log", 1), Inventory("oak_planks", 2),
   Inventory("stick", 1), Inventory("crafting_table", 1), Inventory("wooden_pickaxe", 1),
   Inventory("cobblestone", 5)}

GuardResources ==
  {[b \in BlocksByName |-> NoDistance],
   [b \in BlocksByName |-> IF b = "stone" THEN 5 ELSE NoDistance]}

GuardSnapshots ==
  [inventory : GuardInventories, resources : GuardResources, tableDistance : {4, NoDistance}]

Wanted(name, params, count) ==
  [name |-> name, params |-> params, success_criteria |-> [item_count_gte |-> count]]

GuardSubgoals ==
  {Wanted("collect", [block |-> "stone", count |-> 2], 2),
   Wanted("collect", [item |-> "cobblestone", count |-> 1], 1),
   Wanted("collect", [item |-> "oak_planks", count |-> 2], 2),
   Wanted("collect", [block |-> "unobtainium", count |-> 1], 1),
   Wanted("collect", [item |-> "ring_a", count |-> 1], 1),
   Wanted("collect", [item |-> "shard", count |-> 1], 1),
   Wanted("craft", [item |-> "wooden_pickaxe", count |-> 1], 1),
   Wanted("craft", [item |-> "stick", count |-> 4], 4),
   Wanted("craft", [item |-> "oak_planks", count |-> 1], 1),
   Wanted("craft", [item |-> "n0", count |-> 1], 1),
   Wanted("craft", [count |-> 1], 1),
   Wanted("craft", [item |-> "cobblestone", count |-> 2], 2),
   Wanted("craft", [item |-> "loop", count |-> 1], 1),
   Wanted("craft", [item |-> "unobtainium", amount |-> 0], 1),
   [name |-> "goto_nearest", params |-> [block |-> "stone"],
    success_criteria |-> [found |-> TRUE]],
   [name |-> "explore", params |-> [radius |-> 10],
    success_criteria |-> [explored_points_min |-> 1]]}

GuardPlans ==
  {<<a>> : a \in GuardSubgoals} \cup {<<a, b>> : a \in GuardSubgoals, b \in GuardSubgoals}

NoSnapshot ==
  [inventory |-> Inventory("", 0),
   resources |-> [b \in BlocksByName |-> NoDistance],
   tableDistance |-> NoDistance]

NoGuardInputs ==
  /\ guardSnapshot = NoSnapshot
  /\ guardPlan = <<>>
  /\ guardRuns = <<>>

NoNormalizerInputs ==
  /\ normalizerInput = <<>>
  /\ normalizerRuns = <<>>

NoPlannerCall ==
  /\ plannerOptions = [maxRetries |-> 0, feasibilityRepromptEnabled |-> TRUE,
                       feasibilityRepromptMaxAttempts |-> 1]
  /\ planSnapshot = NoSnapshot
  /\ planner = PlannerIdle
  /\ planResults = <<>>

\* no call of the functions of the planner is under way
NoPureInputs ==
  /\ NoGuardInputs
  /\ NoNormalizerInputs
  /\ NoPlannerCall

Constructed ==
  /\ clock = 0
  /\ ConstructedLimiter
  /\ ConstructedLocks
  /\ ConstructedEngine
  /\ ConstructedSlots
  /\ ConstructedHistory
  /\ now = 1
  /\ stopped = FALSE
  /\ tickInFlight = FALSE
  /\ loopTimer = FALSE
  /\ bot = "none"
  /\ connected = FALSE
  /\ reconnectPending = FALSE
  /\ plannerInFlight = FALSE
  /\ speculativePlanInFlight = FALSE
  /\ speculativePlan = NoPlan
  /\ lastSpeculativePlanAtMs = 0
  /\ speculativeAttemptForSubgoalId = 0
  /\ repeatedFailureKey = NoKey
  /\ repeatedFailureCount = 0
  /\ repeatedFailureLastAtMs = 0
  /\ currentSubgoalStartedAtMs = 0
  /\ currentSubgoalTimeoutHandled = FALSE
  /\ forcedDisconnectReason = "none"
  /\ lastStuckTriggerAtMs = 0
  /\ lastActivityAtMs = 1
  /\ lastProgressAtMs = 1
  /\ lastAlwaysActiveAtMs = 0
  /\ busy = FALSE
  /\ currentSubgoal = NoSub
  /\ queue = <<>>
  /\ pendingTriggers = {}
  /\ plannerCooldownUntil = 0
  /\ active = {}
  /\ waiting = <<>>
  /\ ticks = <<>>
  /\ specTasks = <<>>
  /\ stopAwaiting = FALSE
  /\ timerStale = FALSE
  /\ idLog = <<>>
  /\ stops = 0
  /\ disconnects = 0
  /\ deaths = 0
  /\ dispatchedAfterStop = FALSE
  /\ lastFailure = NoFailure
  /\ guardTrippedAtMs = 0
  /\ requeuedAfterGuard = FALSE

(***************************************************************************)
(* Actions: one per handler or resumption.                                 *)
(***************************************************************************)
\* start(): connect() has no await inside, the interval timer is created in the same job
Start ==
  /\ ~loopTimer
  /\ ~stopAwaiting
  /\ \E s \in {[St EXCEPT !.stopped = FALSE,
                           !.tickInFlight = FALSE,
                           !.lastActivityAtMs = now,
                           !.lastProgressAtMs = now]} :
       Commit([Connect(s) EXCEPT !.loopTimer = TRUE])

\* stop() up to await clearResidualActions (or to its end when there is no bot)
StopBegin ==
  /\ loopTimer
  /\ \E s \in {[St EXCEPT !.stops = @ + 1]} :
       Commit(LET s1 == [SkillLimiterForget(s, BotId) EXCEPT
                           !.stopped = TRUE,
                           !.tickInFlight = FALSE,
                           !.speculativePlanInFlight = FALSE,
                           !.speculativePlan = NoPlan,
                           !.speculativeAttemptForSubgoalId = 0,
                           !.loopTimer = FALSE]
              IN IF s1.bot # "none"
                 THEN [s1 EXCEPT !.stopAwaiting = TRUE]
                 ELSE [s1 EXCEPT !.connected = FALSE])

\* stop() after clearResidualActions: quit, this.bot = null, connected = false
StopFinish ==
  /\ stopAwaiting
  /\ Commit([St EXCEPT !.bot = "none",
                       !.connected = FALSE,
                       !.stopAwaiting = FALSE,
                       !.timerStale = reconnectPending])

\* the interval callback of start(), and tick() up to its first await
TimerTick ==
  /\ loopTimer
  /\ ~stopped
  /\ ~tickInFlight
  /\ \E progressed \in BOOLEAN, capOk \in BOOLEAN, localPlan \in Plans :
       \E s \in {[St EXCEPT !.tickInFlight = TRUE]} :
         TickBody(s, progressed, capOk, localPlan)

\* a tick resumes after the clearResidualActions before the dispatch
ResumeClearPre ==
  \E i \in 1..Len(ticks) :
    /\ ticks[i].pc = "clear_pre"
    /\ \E s \in {[St EXCEPT !.ticks = RemoveAt(@, i)]} :
         Commit(DispatchSubgoal(s, ticks[i]))

\* skillEngine.execute resolves
SkillReturn ==
  \E i \in 1..Len(ticks), result \in SkillResults :
    /\ ticks[i].pc = "skill"
    /\ \E s \in {[St EXCEPT !.ticks = RemoveAt(@, i)]} :
         HandleSkillResult(s, ticks[i], result)

\* a tick resumes after the clearResidualActions of the finally block
ResumeClearPost ==
  \E i \in 1..Len(ticks) :
    /\ ticks[i].pc = "clear_post"
    /\ \E s \in {[St EXCEPT !.ticks = RemoveAt(@, i)]} :
         FinishSubgoal(s, ticks[i], FALSE)

\* planner.plan of requestPlan settles
PlanReturn ==
  \E i \in 1..Len(ticks), thrown \in BOOLEAN, names \in PlannerPlans, localPlan \in Plans :
    /\ ticks[i].pc = "plan"
    /\ thrown => names = <<>>
    /\ \E s \in {[St EXCEPT !.ticks = RemoveAt(@, i)]} :
         RequestPlanReturn(s, ticks[i].nowMs, thrown, names, localPlan)

\* planner.plan of a speculative call settles
SpecReturn ==
  \E j \in 1..Len(specTasks), thrown \in BOOLEAN, names \in PlannerPlans :
    /\ thrown => names = <<>>
    /\ \E s \in {[St EXCEPT !.specTasks = RemoveAt(@, j)]} :
         Commit(SpeculativePlanReturn(s, specTasks[j], thrown, names))

\* bot.once("spawn")
Spawn ==
  /\ bot = "created"
  /\ ~stopped
  /\ \E s \in {[St EXCEPT !.bot = "spawned",
                           !.connected = TRUE,
                           !.forcedDisconnectReason = "none"]} :
       Commit(MarkProgress(s))

\* bot.on("end") / bot.on("kicked") of the controller, then the listener of the
\* reflex manager when it was attached (at spawn)
Disconnect ==
  /\ bot \in {"created", "spawned"}
  /\ \E s \in {[St EXCEPT !.bot = "ended", !.disconnects = @ + 1]} :
       Commit(LET s1 == IF s.stopped THEN s
                        ELSE ScheduleReconnect([s EXCEPT !.forcedDisconnectReason = "none"])
              IN IF bot = "spawned" THEN PushTrigger(s1, "RECONNECT") ELSE s1)

\* a death handler that clears busy and leaves currentSubgoal
DeathHandlerKeepsSubgoal(s) ==
  IF s.stopped THEN s
  ELSE [s EXCEPT !.queue = <<>>,
                 !.busy = FALSE,
                 !.speculativePlan = NoPlan,
                 !.speculativeAttemptForSubgoalId = 0]

\* bot.on("death") of the controller
DeathHandler(s) ==
  IF s.stopped THEN s
  ELSE [s EXCEPT !.queue = <<>>,
                 !.currentSubgoal = NoSub,
                 !.busy = FALSE,
                 !.speculativePlan = NoPlan,
                 !.speculativeAttemptForSubgoalId = 0]

\* the death event: the controller's listener, then the reflex manager's
Death ==
  /\ bot = "spawned"
  /\ \E s \in {[St EXCEPT !.deaths = @ + 1]} :
       Commit(PushTrigger(DeathHandler(s), "DEATH"))

\* the interval of the reflex manager reports no movement while busy
ReflexStuck ==
  /\ bot = "spawned"
  /\ ~stopped
  /\ busy
  /\ \E s \in {St} : Commit(PushTrigger(s, "STUCK"))

\* bot.on("move") / playerCollect / diggingCompleted
Progress ==
  /\ bot = "spawned"
  /\ ~stopped
  /\ \E s \in {St} : Commit(MarkProgress(s))

\* the setTimeout callback of scheduleReconnect
ReconnectTimer ==
  /\ reconnectPending
  /\ \E s \in {[St EXCEPT !.reconnectPending = FALSE]} :
       Commit(IF stopped \/ timerStale
              THEN [s EXCEPT !.timerStale = FALSE]
              ELSE Connect([s EXCEPT !.bot = "none"]))

\* the clock
Advance ==
  /\ now < MaxNow
  /\ Commit([St EXCEPT !.now = now + 1])

(***************************************************************************)
(* The controller with stop() and start(), at one instant of the clock.    *)
(***************************************************************************)
Init ==
  /\ Constructed
  /\ NoPureInputs
  /\ idBudget = MaxRestartIds

Next ==
  \/ Start
  \/ StopBegin
  \/ StopFinish
  \/ TimerTick
  \/ ResumeClearPre
  \/ SkillReturn
  \/ ResumeClearPost
  \/ PlanReturn
  \/ SpecReturn
  \/ Spawn
  \/ Disconnect
  \/ Death
  \/ ReflexStuck
  \/ ReconnectTimer

Spec == Init /\ [][Next]_vars

(***************************************************************************)
(* The controller started once and never stopped, over time: failures,     *)
(* retries and reconnects.                                                 *)
(***************************************************************************)
InitRetry ==
  /\ Constructed
  /\ NoPureInputs
  /\ idBudget = MaxIds

NextRetry ==
  \/ Start
  \/ TimerTick
  \/ ResumeClearPre
  \/ SkillReturn
  \/ ResumeClearPost
  \/ PlanReturn
  \/ Spawn
  \/ Disconnect
  \/ ReconnectTimer
  \/ Advance

SpecRetry == InitRetry /\ [][NextRetry]_vars

(***************************************************************************)
(* The watchdogs of a running subgoal: stop() and start(), progress events *)
(* and time.  The timer keeps firing, an await on clearResidualActions     *)
(* ends within 120 ms, planner calls and the reconnect timer are bounded   *)
(* by timeouts, and time passes; nothing makes a skill handler return.     *)
(***************************************************************************)
InitWatchdog ==
  /\ Constructed
  /\ NoPureInputs
  /\ idBudget = MaxWatchdogIds

NextWatchdog ==
  \/ Start
  \/ StopBegin
  \/ StopFinish
  \/ TimerTick
  \/ ResumeClearPre
  \/ SkillReturn
  \/ ResumeClearPost
  \/ PlanReturn
  \/ SpecReturn
  \/ Spawn
  \/ Disconnect
  \/ Progress
  \/ ReconnectTimer
  \/ Advance

FairSpec ==
  /\ InitWatchdog
  /\ [][NextWatchdog]_vars
  /\ WF_vars(TimerTick)
  /\ WF_vars(ResumeClearPre)
  /\ WF_vars(ResumeClearPost)
  /\ WF_vars(StopFinish)
  /\ WF_vars(PlanReturn)
  /\ WF_vars(SpecReturn)
  /\ WF_vars(ReconnectTimer)
  /\ WF_vars(Advance)

(***************************************************************************)
(* The planner quota: the agents call consume and callsInLastHour at any   *)
(* time, and time passes.                                                  *)
(***************************************************************************)
Tick ==
  /\ clock < MaxClock
  /\ clock' = clock + 1

ConsumeCall ==
  /\ \E b \in Agents : Consume(b)
  /\ UNCHANGED <<controllerVars, serviceVars, clock, lockVars, engineVars, slotVars>>

CallsInLastHourCall ==
  /\ CallsInLastHour
  /\ UNCHANGED <<controllerVars, serviceVars, clock, lockVars, engineVars, slotVars>>

LimiterTick ==
  /\ Tick
  /\ UNCHANGED <<controllerVars, serviceVars, limiterVars, lockVars, engineVars, slotVars>>

InitLimiter ==
  /\ Constructed
  /\ NoPureInputs
  /\ idBudget = 0

NextLimiter ==
  \/ ConsumeCall
  \/ CallsInLastHourCall
  \/ LimiterTick

SpecLimiter == InitLimiter /\ [][NextLimiter]_vars

(***************************************************************************)
(* The LockManager called by the agents in any order, over time.           *)
(***************************************************************************)
AcquireCall ==
  /\ \E k \in LockKeys, a \in Agents :
       \E r \in {Acquire(LockSt, k, a, clock)} :
         CommitLocks(r.st, [op |-> "acquire", key |-> k, agent |-> a, ok |-> r.ok,
                            owner |-> "none"])
  /\ UNCHANGED <<controllerVars, serviceVars, clock, limiterVars, engineVars, slotVars>>

HeartbeatCall ==
  /\ \E k \in LockKeys, a \in Agents :
       \E r \in {Heartbeat(LockSt, k, a, clock)} :
         CommitLocks(r.st, [op |-> "heartbeat", key |-> k, agent |-> a, ok |-> r.ok,
                            owner |-> "none"])
  /\ UNCHANGED <<controllerVars, serviceVars, clock, limiterVars, engineVars, slotVars>>

ReleaseCall ==
  /\ \E k \in LockKeys, a \in Agents :
       \E r \in {Release(LockSt, k, a)} :
         CommitLocks(r.st, [op |-> "release", key |-> k, agent |-> a, ok |-> r.ok,
                            owner |-> "none"])
  /\ UNCHANGED <<controllerVars, serviceVars, clock, limiterVars, engineVars, slotVars>>

OwnerOfCall ==
  /\ \E k \in LockKeys :
       \E r \in {OwnerOf(LockSt, k, clock)} :
         CommitLocks(r.st, [op |-> "ownerOf", key |-> k, agent |-> "none", ok |-> TRUE,
                            owner |-> r.owner])
  /\ UNCHANGED <<controllerVars, serviceVars, clock, limiterVars, engineVars, slotVars>>

LocksTick ==
  /\ Tick
  /\ UNCHANGED <<controllerVars, serviceVars, limiterVars, lockVars, engineVars, slotVars>>

InitLocks ==
  /\ Constructed
  /\ NoPureInputs
  /\ idBudget = 0

NextLocks ==
  \/ AcquireCall
  \/ HeartbeatCall
  \/ ReleaseCall
  \/ OwnerOfCall
  \/ LocksTick

SpecLocks == InitLocks /\ [][NextLocks]_vars

(***************************************************************************)
(* The skill engine called by the agents, its heartbeat timers, and time.  *)
(* An agent can have two executions in flight (see C1).                    *)
(***************************************************************************)
ExecuteCall ==
  /\ \E e \in Execs, a \in Agents, subgoal \in EngineSubgoals :
       /\ execs[e].pc = "idle"
       /\ ~execs[e].ticker
       /\ ExecuteBegin(e, a, subgoal)
  /\ UNCHANGED <<controllerVars, serviceVars, clock, limiterVars, slotVars>>

HeartbeatInterval ==
  /\ \E e \in Execs :
       /\ execs[e].ticker
       /\ HeartbeatTimer(e)
  /\ UNCHANGED <<controllerVars, serviceVars, clock, limiterVars, slotVars>>

HandlerSettles ==
  /\ \E e \in Execs, outcome \in HandlerOutcomes :
       /\ execs[e].pc = "handler"
       /\ ExecuteEnd(e, outcome)
  /\ UNCHANGED <<controllerVars, serviceVars, clock, limiterVars, slotVars>>

EngineTick ==
  /\ Tick
  /\ UNCHANGED <<controllerVars, serviceVars, limiterVars, lockVars, engineVars, slotVars>>

InitEngine ==
  /\ Constructed
  /\ NoPureInputs
  /\ idBudget = 0

NextEngine ==
  \/ ExecuteCall
  \/ HeartbeatInterval
  \/ HandlerSettles
  \/ EngineTick

SpecEngine == InitEngine /\ [][NextEngine]_vars

(***************************************************************************)
(* The SkillLimiter called by three agents in any order.                   *)
(***************************************************************************)
TryEnterCall ==
  /\ \E b \in SlotAgents : TryEnterBy(b)
  /\ UNCHANGED <<agentVars, serviceVars, clock, limiterVars, lockVars, engineVars>>

LeaveCall ==
  /\ \E b \in SlotAgents : LeaveBy(b)
  /\ UNCHANGED <<agentVars, serviceVars, clock, limiterVars, lockVars, engineVars>>

ForgetCall ==
  /\ \E b \in SlotAgents : ForgetBy(b)
  /\ UNCHANGED <<agentVars, serviceVars, clock, limiterVars, lockVars, engineVars>>

InitSlots ==
  /\ Constructed
  /\ NoPureInputs
  /\ idBudget = 0

NextSlots ==
  \/ TryEnterCall
  \/ LeaveCall
  \/ ForgetCall

SpecSlots == InitSlots /\ [][NextSlots]_vars

(***************************************************************************)
(* The SkillLimiter over an unbounded run: agents call tryEnter whenever   *)
(* they have a subgoal queued, an admitted agent calls leave when its      *)
(* subgoal is over, an agent that stops or reconnects calls forget.  One   *)
(* agent, Persistent, never stops or disconnects and calls tryEnter on     *)
(* every tick.                                                             *)
(***************************************************************************)
Persistent == "B"

FairSlotAgents == SlotAgents \cup {"D"}

SlotTryEnter(b) ==
  /\ \E r \in {SkillLimiterTryEnter(SlotSt, b)} :
       /\ active' = r.st.active
       /\ waiting' = r.st.waiting
  /\ UNCHANGED <<agentVars, coordVars>>

SlotLeave(b) ==
  /\ b \in active
  /\ \E s \in {SkillLimiterLeave(SlotSt, b)} :
       /\ active' = s.active
       /\ waiting' = s.waiting
  /\ UNCHANGED <<agentVars, coordVars>>

SlotForget(b) ==
  /\ b # Persistent
  /\ \E s \in {SkillLimiterForget(SlotSt, b)} :
       /\ active' = s.active
       /\ waiting' = s.waiting
  /\ UNCHANGED <<agentVars, coordVars>>

SlotTryEnterStep == \E b \in FairSlotAgents : SlotTryEnter(b)

SlotLeaveStep == \E b \in FairSlotAgents : SlotLeave(b)

SlotForgetStep == \E b \in FairSlotAgents : SlotForget(b)

NextFairSlots ==
  \/ SlotTryEnterStep
  \/ SlotLeaveStep
  \/ SlotForgetStep

FairSlots ==
  /\ InitSlots
  /\ [][NextFairSlots]_vars
  /\ \A b \in FairSlotAgents : WF_vars(SlotLeave(b))
  /\ WF_vars(SlotTryEnter(Persistent))

(***************************************************************************)
(* The history of one agent: executions begin and return in any order,     *)
(* and time passes.                                                        *)
(***************************************************************************)
BeginRunCall ==
  /\ \E id \in HistoryRuns : BeginRun(id)
  /\ UNCHANGED <<controllerVars, clock, limiterVars, lockVars, engineVars, slotVars,
                 pureVars, plannerVars>>

EndRunCall ==
  /\ \E id \in HistoryRuns, outcome \in {"SUCCESS", "FAILURE"}, botPresent \in BOOLEAN :
       EndRun(id, outcome, botPresent)
  /\ UNCHANGED <<controllerVars, clock, limiterVars, lockVars, engineVars, slotVars,
                 pureVars, plannerVars>>

HistoryTick ==
  /\ Tick
  /\ UNCHANGED <<controllerVars, limiterVars, lockVars, engineVars, slotVars, serviceVars>>

InitHistory ==
  /\ Constructed
  /\ NoPureInputs
  /\ idBudget = 0

NextHistory ==
  \/ BeginRunCall
  \/ EndRunCall
  \/ HistoryTick

SpecHistory == InitHistory /\ [][NextHistory]_vars

(***************************************************************************)
(* The feasibility guard applied to a plan, and applied again to its own   *)
(* result with the same snapshot, as planner.plan and requestPlan do.      *)
(***************************************************************************)
\* what a run of enforceSubgoalPrerequisites returns and what it did on the way
GuardRun(snapshot, subgoals) ==
  The({[subgoals |-> result.subgoals,
        notes |-> result.ctx.notes,
        before |-> snapshot.inventory,
        projected |-> result.ctx.projected,
        added |-> result.ctx.added,
        entered |-> result.ctx.entered] :
         result \in {enforceSubgoalPrerequisites(snapshot, subgoals)}})

\* enforceSubgoalPrerequisites(snapshot, plan)
GuardCall ==
  /\ guardPlan # <<>>
  /\ guardRuns = <<>>
  /\ guardRuns' = <<GuardRun(guardSnapshot, guardPlan)>>
  /\ UNCHANGED <<guardSnapshot, guardPlan>>

\* enforceSubgoalPrerequisites(snapshot, the subgoals the guard returned)
GuardAgain ==
  /\ Len(guardRuns) = 1
  /\ guardRuns' = Append(guardRuns, GuardRun(guardSnapshot, guardRuns[1].subgoals))
  /\ UNCHANGED <<guardSnapshot, guardPlan>>

GuardCallStep ==
  /\ GuardCall
  /\ UNCHANGED <<controllerVars, clock, limiterVars, lockVars, engineVars, slotVars,
                 historyVars, normalizerVars, plannerVars>>

GuardAgainStep ==
  /\ GuardAgain
  /\ UNCHANGED <<controllerVars, clock, limiterVars, lockVars, engineVars, slotVars,
                 historyVars, normalizerVars, plannerVars>>

InitGuard ==
  /\ Constructed
  /\ idBudget = 0
  /\ NoNormalizerInputs
  /\ NoPlannerCall
  /\ guardSnapshot \in GuardSnapshots
  /\ guardPlan \in GuardPlans
  /\ guardRuns = <<>>

NextGuard ==
  \/ GuardCallStep
  \/ GuardAgainStep

SpecGuard == InitGuard /\ [][NextGuard]_vars

(***************************************************************************)
(* The normalizer applied to a list of subgoals, and applied again to the  *)
(* list it returned.                                                       *)
(***************************************************************************)
\* normalizePlannerSubgoals(parsed.subgoals)
NormalizeCall ==
  /\ normalizerInput # <<>>
  /\ normalizerRuns = <<>>
  /\ normalizerRuns' = <<normalizePlannerSubgoals(normalizerInput)>>
  /\ UNCHANGED normalizerInput

\* normalizePlannerSubgoals(the subgoals it returned)
NormalizeAgain ==
  /\ Len(normalizerRuns) = 1
  /\ normalizerRuns' = Append(normalizerRuns,
                              normalizePlannerSubgoals(normalizerRuns[1].subgoals))
  /\ UNCHANGED normalizerInput

NormalizeCallStep ==
  /\ NormalizeCall
  /\ UNCHANGED <<controllerVars, clock, limiterVars, lockVars, engineVars, slotVars,
                 historyVars, guardVars, plannerVars>>

NormalizeAgainStep ==
  /\ NormalizeAgain
  /\ UNCHANGED <<controllerVars, clock, limiterVars, lockVars, engineVars, slotVars,
                 historyVars, guardVars, plannerVars>>

InitNormalizer ==
  /\ Constructed
  /\ idBudget = 0
  /\ NoGuardInputs
  /\ NoPlannerCall
  /\ normalizerInput \in NormalizerPlans
  /\ normalizerRuns = <<>>

NextNormalizer ==
  \/ NormalizeCallStep
  \/ NormalizeAgainStep

SpecNormalizer == InitNormalizer /\ [][NextNormalizer]_vars

(***************************************************************************)
(* The planner service: the agents call plan one after the other, and the  *)
(* model answers in any way.  A call lasts seconds and the window of the   *)
(* limiter an hour: the clock, which counts in half windows, moves         *)
(* between the calls.                                                      *)
(***************************************************************************)
\* the for loop of the reprompts at its test: the next consume and the repair
\* call, or the end of the try block
Reprompt(st) ==
  IF st.repromptAttempt < plannerOptions.feasibilityRepromptMaxAttempts
  THEN /\ Consume(st.bot)
       /\ \E consumed \in {[st EXCEPT !.trace = Append(@, ConsumeEvent(decision'))]} :
            IF repromptDenied(decision')
            THEN /\ planResults' =
                      Append(planResults,
                             Finish(planSnapshot,
                                    [consumed EXCEPT !.notes =
                                       Append(@, [note |-> "feasibility_reprompt_skipped",
                                                  reason |-> decision'.reason])]))
                 /\ planner' = PlannerIdle
            ELSE /\ planner' = generate(consumed, "repair", clock)
                 /\ UNCHANGED planResults
  ELSE /\ planResults' = Append(planResults, Finish(planSnapshot, st))
       /\ planner' = PlannerIdle
       /\ UNCHANGED limiterVars

\* plan(request) up to its first await, or to its return
PlanCall(b, valid) ==
  /\ planner.pc = "idle"
  /\ Len(planResults) < MaxPlans
  /\ IF ~valid
     THEN /\ planResults' = Append(planResults, SchemaError(b))
          /\ UNCHANGED <<planner, limiterVars>>
     ELSE /\ Consume(b)
          /\ \E st \in {[PlannerIdle EXCEPT !.bot = b,
                                            !.trace = <<ConsumeEvent(decision')>>]} :
               IF budgetDenied(decision')
               THEN /\ planResults' = Append(planResults,
                                             RateLimited(planSnapshot, st, decision'))
                    /\ UNCHANGED planner
               ELSE /\ planner' = generate(st, "initial", clock)
                    /\ UNCHANGED planResults
  /\ UNCHANGED <<plannerOptions, planSnapshot>>

\* generateJson settles: plan runs on to its next await or to its return
GenerateReturn(outcome) ==
  /\ planner.pc = "generateJson"
  /\ \E after \in {afterGenerate(plannerOptions, planSnapshot, planner, outcome)} :
       CASE after.next = "sleep" ->
              /\ planner' = after.st
              /\ UNCHANGED <<planResults, limiterVars>>
         [] after.next = "raise" ->
              /\ planResults' = Append(planResults,
                                       PlannerError(planSnapshot, after.st, after.error))
              /\ planner' = PlannerIdle
              /\ UNCHANGED limiterVars
         [] after.next = "finish" ->
              /\ planResults' = Append(planResults, Finish(planSnapshot, after.st))
              /\ planner' = PlannerIdle
              /\ UNCHANGED limiterVars
         [] after.next = "reprompt" -> Reprompt(after.st)
  /\ UNCHANGED <<plannerOptions, planSnapshot>>

\* the sleep between two tries is over: the next call of generateJson
SleepReturn ==
  /\ planner.pc = "sleep"
  /\ planner' = [planner EXCEPT !.pc = "generateJson",
                                !.trace = Append(@, GenerateEvent(planner.mode,
                                                                  planner.attempt, clock))]
  /\ UNCHANGED <<plannerOptions, planSnapshot, planResults, limiterVars>>

PlanCallStep ==
  /\ \E b \in Agents, valid \in BOOLEAN : PlanCall(b, valid)
  /\ UNCHANGED <<controllerVars, clock, lockVars, engineVars, slotVars, historyVars, pureVars>>

GenerateReturnStep ==
  /\ \E outcome \in LlmOutcomes : GenerateReturn(outcome)
  /\ UNCHANGED <<controllerVars, clock, lockVars, engineVars, slotVars, historyVars, pureVars>>

SleepReturnStep ==
  /\ SleepReturn
  /\ UNCHANGED <<controllerVars, clock, lockVars, engineVars, slotVars, historyVars, pureVars>>

PlannerTick ==
  /\ planner.pc = "idle"
  /\ Tick
  /\ UNCHANGED <<controllerVars, limiterVars, lockVars, engineVars, slotVars, serviceVars>>

InitPlanner ==
  /\ Constructed
  /\ idBudget = 0
  /\ NoGuardInputs
  /\ NoNormalizerInputs
  /\ plannerOptions \in PlannerOptions
  /\ planSnapshot \in PlannerSnapshots
  /\ planner = PlannerIdle
  /\ planResults = <<>>

NextPlanner ==
  \/ PlanCallStep
  \/ GenerateReturnStep
  \/ SleepReturnStep
  \/ PlannerTick

SpecPlanner == InitPlanner /\ [][NextPlanner]_vars

(***************************************************************************)
(* What is in flight.                                                      *)
(***************************************************************************)
TicksAt(pc) == {i \in 1..Len(ticks) : ticks[i].pc = pc}

SkillsInFlight == Cardinality(TicksAt("skill"))

PlannerCallsInFlight == Cardinality(TicksAt("plan")) + Len(specTasks)

\* the skill handler of the current subgoal is running on a live, connected controller
SkillRunning ==
  /\ ~stopped
  /\ bot = "spawned"
  /\ connected
  /\ busy
  /\ \E i \in TicksAt("skill") : ticks[i].sub = currentSubgoal

(***************************************************************************)
(* Claims.                                                                 *)
(***************************************************************************)
\* C1: at every instant at most one skill handler execution of the agent is in
\* flight, in any interleaving of ticks, death, disconnect/reconnect, stop/start.
C1_OneSkillInFlight == SkillsInFlight <= 1

\* C2: busy is true if and only if currentSubgoal is not null.
C2_BusyIffCurrentSubgoal == busy <=> (currentSubgoal # NoSub)

\* C2, the case: a death or a disconnect has cleared busy and currentSubgoal
\* while the skill handler of that subgoal is still running.
C2_Witness ==
  /\ ~busy
  /\ currentSubgoal = NoSub
  /\ SkillsInFlight >= 1
  /\ deaths + disconnects > 0

\* C3: at most one tick of the agent is in flight at any time.
C3_OneTickInFlight == Len(ticks) <= 1

\* C4: a subgoal that has been executing for at least SUBGOAL_EXEC_TIMEOUT_MS does
\* not go on executing for ever without the timeout handler having force-disconnected.
Overdue ==
  /\ SkillRunning
  /\ currentSubgoalStartedAtMs > 0
  /\ now - currentSubgoalStartedAtMs >= SUBGOAL_EXEC_TIMEOUT_MS

C4_TimeoutDisconnects == Overdue ~> (currentSubgoalTimeoutHandled \/ ~Overdue)

\* C5: a subgoal executing without progress for at least SUBGOAL_IDLE_STALL_MS does
\* not go on so for ever without the force-disconnect of reason subgoal_idle_stall.
Stalled ==
  /\ SkillRunning
  /\ currentSubgoalStartedAtMs > 0
  /\ now - lastProgressAtMs >= SUBGOAL_IDLE_STALL_MS

C5_IdleStallDisconnects ==
  Stalled ~> (forcedDisconnectReason = "subgoal_idle_stall" \/ ~Stalled)

\* C6: an execution interrupted by a disconnect is requeued exactly once.
RequeuesOfExecution(id) == {i \in 1..Len(idLog) : idLog[i].parent = id}

C6_RequeuedOnceOnDisconnect ==
  \A i \in 1..Len(idLog) :
    idLog[i].via = "disconnect" => Cardinality(RequeuesOfExecution(idLog[i].parent)) = 1

\* C7: the retry requeues of one planner-emitted subgoal never exceed
\* retryLimitFor(code), for the most generous code among its requeues.
RequeuesOfOrigin(o) == {i \in 1..Len(idLog) : idLog[i].origin = o /\ idLog[i].via # "plan"}

MostGenerousLimit(o) ==
  CHOOSE m \in {idLog[i].limit : i \in RequeuesOfOrigin(o)} :
    \A i \in RequeuesOfOrigin(o) : idLog[i].limit <= m

C7_RetryBound ==
  \A o \in 1..Len(idLog) :
    RequeuesOfOrigin(o) # {} => Cardinality(RequeuesOfOrigin(o)) <= MostGenerousLimit(o)

\* C8, for every requeue: once SUBGOAL_LOOP_GUARD has tripped, no subgoal is requeued for
\* retry until SUBGOAL_FAILURE_STREAK_WINDOW_MS has elapsed.
C8_NoRequeueInWindow == ~requeuedAfterGuard

\* C8, for the failure that trips the guard: the handling of a failure that brings the streak of its
\* name:code key to SUBGOAL_LOOP_GUARD_REPEATS or more does not requeue the subgoal.
C8_GuardedFailureNotRequeued ==
  lastFailure.count >= SUBGOAL_LOOP_GUARD_REPEATS => ~lastFailure.requeued

\* C8, the case: the last failure tripped the guard, after an earlier requeue.
C8_Witness ==
  /\ lastFailure.count >= SUBGOAL_LOOP_GUARD_REPEATS
  /\ \E i \in 1..Len(idLog) : idLog[i].via = "failure"

\* C9: once stop() was called, no subgoal is dispatched to the skill engine.
C9_NoDispatchAfterStop == ~dispatchedAfterStop

\* C10: at every instant at most one planner call, regular or speculative, of the
\* agent is in flight.
C10_OnePlannerCallInFlight == PlannerCallsInFlight <= 1

\* the allowed calls of a set of agents with a stamp in the closed window [t, t + HourMs]
AllowedIn(agents, t) ==
  {i \in 1..Len(allowedLog) :
     /\ allowedLog[i].bot \in agents
     /\ t <= allowedLog[i].at
     /\ allowedLog[i].at <= t + HourMs}

\* C11: in every window of one hour, the calls of one agent that returned allowed
\* are at most per_bot_cap.
C11_PerBotCap ==
  \A b \in Agents, t \in 0..MaxClock :
    Cardinality(AllowedIn({b}, t)) <= LLM_PER_BOT_HOURLY_CAP

\* C11, the case: an agent was refused for BOT_CAP, and over the hours it has had
\* more than per_bot_cap calls allowed.
C11_Witness ==
  /\ decision.reason = "BOT_CAP"
  /\ Cardinality({i \in 1..Len(allowedLog) : allowedLog[i].bot = decision.bot})
       > LLM_PER_BOT_HOURLY_CAP

\* C12: in every window of one hour, the calls of all agents together that returned
\* allowed are at most global_cap.
C12_GlobalCap ==
  \A t \in 0..MaxClock : Cardinality(AllowedIn(Agents, t)) <= LLM_GLOBAL_HOURLY_CAP

\* C12, the case: an agent under its own cap was refused for GLOBAL_CAP, and over the
\* hours more than global_cap calls were allowed.
C12_Witness ==
  /\ decision.reason = "GLOBAL_CAP"
  /\ Len(allowedLog) > LLM_GLOBAL_HOURLY_CAP

\* new is old without a prefix of stamps older than one hour
PrunedOnly(old, new, nowMs) ==
  \E k \in 0..Len(old) :
    /\ new = SubSeq(old, k + 1, Len(old))
    /\ \A i \in 1..k : old[i] < nowMs - HourMs

\* C13: a consume that is denied leaves in the agent's window and in the global
\* window the stamps they held, except expired ones that it prunes.
C13_DenialRecordsNothing ==
  [][(decision' # decision /\ ~decision'.allowed)
       => /\ PrunedOnly(globalCalls, globalCalls', clock)
          /\ \A a \in Agents : PrunedOnly(botCalls[a], botCalls'[a], clock)]_vars

\* C13, the case: the last consume was denied at a time when an expired stamp was
\* pruned and unexpired ones stayed.
C13_Witness ==
  /\ decision.bot # "none"
  /\ ~decision.allowed
  /\ Len(globalCalls) > 0
  /\ Len(globalCalls) < Len(allowedLog)

\* the agents whose last grant on a key (acquire or heartbeat, not released since)
\* has not reached its expires_at
ActiveOwners(k) == {a \in Agents : granted[k][a] > clock}

\* C14: at every time and for every key, at most one agent owns an active lease on
\* the key, and the manager holds at most one lease for it.
C14_OneOwnerPerKey ==
  \A k \in LockKeys :
    /\ Cardinality(ActiveOwners(k)) <= 1
    /\ Cardinality({i \in 1..Len(leases) : leases[i].resourceKey = k}) <= 1

\* C14, the case: an agent has just been refused a key that another agent owns.
C14_Witness ==
  /\ lockCall.op = "acquire"
  /\ ~lockCall.ok
  /\ ActiveOwners(lockCall.key) # {}
  /\ lockCall.agent \notin ActiveOwners(lockCall.key)

\* a step of the named specification that is a call of the LockManager
LockCallStep(ops) == clock' = clock /\ lockCall'.op \in ops

\* C15: a heartbeat or a release by an agent that is not the owner of the key's lease
\* changes no lease, writes no event, and returns false.
C15_NonOwnerNoOp ==
  [][(/\ LockCallStep({"heartbeat", "release"})
      /\ LeaseOf(leases, lockCall'.key).ownerBotId # lockCall'.agent)
       => /\ leases' = leases
          /\ lockEvents' = lockEvents
          /\ ~lockCall'.ok]_vars

\* C15, the case: the last call was a heartbeat or release refused on a key whose
\* lease belongs to another agent.
C15_Witness ==
  /\ lockCall.op \in {"heartbeat", "release"}
  /\ ~lockCall.ok
  /\ LeaseOf(leases, lockCall.key).ownerBotId \notin {"none", lockCall.agent}

\* C16: acquire succeeds if and only if the key has no lease, or a lease that has
\* reached its expires_at, or a lease of the calling agent.
C16_AcquireIff ==
  [][LockCallStep({"acquire"})
       => (lockCall'.ok <=>
             \/ LeaseOf(leases, lockCall'.key) = NoLease
             \/ LeaseOf(leases, lockCall'.key).expiresAt <= clock
             \/ LeaseOf(leases, lockCall'.key).ownerBotId = lockCall'.agent)]_vars

\* C16, the case: an agent has acquired a key that another agent had and released.
C16_Witness ==
  /\ lockCall.op = "acquire"
  /\ lockCall.ok
  /\ \E i \in 1..Len(lockEvents) :
       /\ lockEvents[i].resourceKey = lockCall.key
       /\ lockEvents[i].ownerBotId # lockCall.agent
       /\ lockEvents[i].action = "RELEASE"

ActionName(op) ==
  CASE op = "acquire" -> "ACQUIRE"
    [] op = "heartbeat" -> "HEARTBEAT"
    [] op = "release" -> "RELEASE"
    [] OTHER -> "none"

\* the rows a step adds to the locks table
NewLockEvents == {lockEvents'[i] : i \in (Len(lockEvents) + 1)..Len(lockEvents')}

\* C17: every successful acquire, heartbeat and release writes its event to the store,
\* and so does every lease that a call removes as expired.
C17_EveryTransitionEmits ==
  [][clock' = clock
       => /\ (LockCallStep({"acquire", "heartbeat", "release"}) /\ lockCall'.ok)
               => LockEvent(lockCall'.key, lockCall'.agent, ActionName(lockCall'.op))
                    \in NewLockEvents
          /\ \A i \in 1..Len(leases) :
               (/\ LockCallStep({"acquire", "ownerOf"})
                /\ leases[i].expiresAt <= clock)
                 => LockEvent(leases[i].resourceKey, leases[i].ownerBotId, "EXPIRE")
                      \in NewLockEvents]_vars

\* C18: a lease is held, and a heartbeat ticker runs, only for an execute that has
\* not returned: once execute has returned, on whatever path, its ticker is stopped
\* and its agent owns the key no longer, unless another execute of the agent holds it.
C18_ReleasedOnExit ==
  /\ \A i \in 1..Len(leases) :
       \E e \in Execs : /\ execs[e].pc = "handler"
                        /\ execs[e].agent = leases[i].ownerBotId
                        /\ execs[e].lockKey = leases[i].resourceKey
  /\ \A e \in Execs : execs[e].ticker => execs[e].pc = "handler"

\* C18, the case: an execute on a lock-keyed subgoal has ended by an exception, and
\* its release has removed the lease.
C18_Witness ==
  /\ lastReturn.path = "thrown"
  /\ lastReturn.lockKey # "none"
  /\ lockCall.op = "release"
  /\ lockCall.ok
  /\ LeaseOf(leases, lastReturn.lockKey) = NoLease
  /\ granted[lastReturn.lockKey][lastReturn.agent] = 0

\* C19: an exception of the handler that is not a structured failure is returned
\* as a failure with error code DEPENDS_ON_ITEM and retryable = false.
C19_ThrownNotRetryable ==
  lastReturn.path = "thrown" => lastReturn.result = failure("DEPENDS_ON_ITEM", FALSE)

\* C20, for every agent that called first: with capacity 1, no agent is admitted
\* while an agent that was refused before it, the slot being occupied, has not been
\* admitted.
C20_NoOvertaking == \A i \in 1..Len(admissions) : admissions[i].overtook = {}

\* C20, for the agents that kept their place: with capacity 1, no agent is admitted
\* while an agent that was refused before it, the slot being occupied, and has not
\* called leave or forget since, has not been admitted.
C20_NoOvertakingOfWaiters == \A i \in 1..Len(admissions) : admissions[i].jumped = {}

\* C20, the case: two agents refused while the slot was occupied were admitted one
\* after the other, and a third agent that had called before one of them and then
\* called leave or forget was passed.
C20_Witness ==
  \E i \in 1..Len(admissions), j \in 1..Len(admissions) :
    /\ i < j
    /\ admissions[i].agent # admissions[j].agent
    /\ admissions[i].waited
    /\ admissions[j].waited
    /\ admissions[j].overtook # {}

HardFailureStep ==
  /\ Cardinality({i \in 1..Len(ticks') : ticks'[i].pc = "clear_post"})
       > Cardinality(TicksAt("clear_post"))
  /\ repeatedFailureKey' # NoKey
  /\ ~lastFailure'.requeued

\* C22: the handling of a failure that is not requeued leaves the queue empty,
\* plannerCooldownUntil at the present time and SUBGOAL_FAILED pending.
C22_HardFailureReplans ==
  [][HardFailureStep
       => /\ queue' = <<>>
          /\ plannerCooldownUntil' = now
          /\ "SUBGOAL_FAILED" \in pendingTriggers']_vars

\* C22, the case: the first subgoal of a plan of two has failed and was not requeued,
\* and the second one is no longer queued.
C22_Witness ==
  /\ \E i \in TicksAt("clear_post") : ticks[i].sub.id = 1
  /\ Len(idLog) >= 2
  /\ idLog[2].via = "plan"
  /\ lastFailure.count >= 1
  /\ ~lastFailure.requeued
  /\ queue = <<>>
  /\ "SUBGOAL_FAILED" \in pendingTriggers

\* the entries the completions so far have appended, oldest first
RecordedCompletions ==
  SelectSeq(completions, LAMBDA c : c.recorded)

\* C23: the history holds the latest recorded completions of the agent in the
\* order in which their executions returned, and its timestamps never decrease.
C23_HistoryInCompletionOrder ==
  LET rec == RecordedCompletions
      kept == IF Len(rec) > LLM_HISTORY_LIMIT THEN LLM_HISTORY_LIMIT ELSE Len(rec)
  IN /\ Len(history) = kept
     /\ \A i \in 1..kept :
          /\ history[i].subgoal = rec[Len(rec) - kept + i].subgoal
          /\ history[i].timestamp = rec[Len(rec) - kept + i].at
     /\ \A i, j \in 1..Len(history) : i < j => history[i].timestamp <= history[j].timestamp

\* two executions that returned in the reverse of the order of their subgoals,
\* at different times, after an older entry was dropped at the limit
C23_Witness ==
  /\ Len(RecordedCompletions) > LLM_HISTORY_LIMIT
  /\ Len(history) = 2
  /\ history[1].subgoal > history[2].subgoal
  /\ history[1].timestamp < history[2].timestamp

\* C27: the guard applied to its own result, with the same snapshot, returns
\* that result unchanged.
C27_GuardIdempotent ==
  Len(guardRuns) = 2 => guardRuns[2].subgoals = guardRuns[1].subgoals

\* C29: in every run of the guard, each addProjected leaves the count of its item
\* at least as high as it found it, and no item ends below its count in the snapshot.
C29_ProjectedNeverDecreases ==
  \A r \in 1..Len(guardRuns) :
    /\ \A i \in 1..Len(guardRuns[r].added) :
         guardRuns[r].added[i].after >= guardRuns[r].added[i].before
    /\ \A n \in GuardNames : guardRuns[r].projected[n] >= guardRuns[r].before[n]

\* C29, the case: a run that added twice to an item the inventory already held
C29_Witness ==
  \E r \in 1..Len(guardRuns) :
    \E i, j \in 1..Len(guardRuns[r].added) :
      /\ i < j
      /\ guardRuns[r].added[i].item = guardRuns[r].added[j].item
      /\ guardRuns[r].added[i].before > 0
      /\ guardRuns[r].added[j].after > guardRuns[r].added[i].after

\* the notes of a run that report a cut-off of planAcquireItem
CutOffNotes(run) ==
  {run.notes[i][2] : i \in {k \in 1..Len(run.notes) :
                              run.notes[k][1] = "dependency_cycle_or_depth_limit"}}

\* C30: every call of planAcquireItem that went past its cut-off was at depth 8
\* at most and for an item that was not on the planning stack; the runs on the
\* ring, on the recipe that needs its own result and on the chain all returned.
C30_PlanningCutOff ==
  \A r \in 1..Len(guardRuns) :
    \A i \in 1..Len(guardRuns[r].entered) :
      /\ guardRuns[r].entered[i].depth <= DepthLimit
      /\ guardRuns[r].entered[i].item \notin guardRuns[r].entered[i].stack

\* C30, the case: one run that was cut off on the chain, having reached depth 8,
\* and on the ring, at an item it had entered before
C30_Witness ==
  \E r \in 1..Len(guardRuns) :
    /\ \E i \in 1..Len(guardRuns[r].entered) :
         /\ guardRuns[r].entered[i].depth = DepthLimit
         /\ guardRuns[r].entered[i].item \in ChainItems
    /\ \E i \in 1..Len(guardRuns[r].entered) :
         /\ guardRuns[r].entered[i].item = "ring_a"
         /\ "ring_a" \in CutOffNotes(guardRuns[r])
    /\ Len(guardRuns[r].subgoals) > 0

\* C28: normalizing a list of subgoals that the normalizer has returned gives the
\* same list of subgoals back
C28_NormalizerIdempotent ==
  Len(normalizerRuns) = 2 => normalizerRuns[2].subgoals = normalizerRuns[1].subgoals

\* both runs are done on a list of two, of which the first run has dropped one
\* subgoal and rewritten the params of the other
C28_Witness ==
  /\ Len(normalizerRuns) = 2
  /\ Len(normalizerInput) = 2
  /\ Len(normalizerRuns[1].subgoals) = 1
  /\ \A i \in 1..2 : normalizerInput[i] # normalizerRuns[1].subgoals[1]
  /\ normalizerRuns[2].subgoals = normalizerRuns[1].subgoals

\* the calls of plan that have passed the schema and the first consume
PassedBudget == {i \in 1..Len(planResults) :
                   planResults[i].trace # <<>> /\ planResults[i].trace[1].allowed}

HasNote(notes, note) == \E k \in 1..Len(notes) : notes[k].note = note

\* C24: a call of plan whose first consume is denied returns RATE_LIMITED with
\* buildFallbackPlan(snapshot, RATE_LIMIT_<reason>) and has made no LLM call:
\* the denied consume is all it did, and no call with a denied first consume
\* is in flight
C24_DeniedBudgetRateLimited ==
  /\ \A i \in 1..Len(planResults) :
       (planResults[i].trace # <<>> /\ ~planResults[i].trace[1].allowed) =>
         /\ planResults[i].status = "RATE_LIMITED"
         /\ planResults[i].response =
              buildFallbackPlan(planSnapshot, <<"RATE_LIMIT", planResults[i].trace[1].reason>>)
         /\ Len(planResults[i].trace) = 1
  /\ planner.trace # <<>> => planner.trace[1].allowed

\* a call of plan was denied by the cap of its agent and has returned
\* RATE_LIMITED with a fallback plan
C24_Witness ==
  \E i \in 1..Len(planResults) :
    /\ planResults[i].status = "RATE_LIMITED"
    /\ planResults[i].trace[1].reason = "BOT_CAP"
    /\ planResults[i].response.subgoals # <<>>

\* C25 as stated: a call of plan that has passed the schema and the budget never
\* raises, and whenever callModelWithPrompt or the guard check has raised in it,
\* it returns FALLBACK
C25_AnyFailureFallsBack ==
  \A i \in PassedBudget :
    /\ planResults[i].status # "RAISED"
    /\ planResults[i].thrown # <<>> => planResults[i].status = "FALLBACK"

\* C25, amended: such a call never raises.  When the initial model call has
\* raised after its retries, or the guarded plan is empty, it returns FALLBACK
\* with buildFallbackPlan(snapshot, PLANNER_ERROR:<message>); when only repair
\* calls have raised, each has left its feasibility_reprompt_error note and the
\* call returns SUCCESS with the plan guarded last
C25_InitialFailureFallsBack ==
  \A i \in PassedBudget :
    IF \E k \in 1..Len(planResults[i].thrown) :
         planResults[i].thrown[k].mode \in {"initial", "guard"}
    THEN /\ planResults[i].status = "FALLBACK"
         /\ planResults[i].response =
              buildFallbackPlan(planSnapshot,
                                <<"PLANNER_ERROR",
                                  planResults[i].thrown[Len(planResults[i].thrown)].error>>)
    ELSE /\ planResults[i].status = "SUCCESS"
         /\ planResults[i].response.subgoals = planResults[i].guarded
         /\ planResults[i].guarded # <<>>
         /\ planResults[i].thrown # <<>> =>
              HasNote(planResults[i].notes, "feasibility_reprompt_error")

\* the initial model call was tried twice, the second answer had no subgoal left
\* after the normalizer, and plan has returned FALLBACK
C25_Witness ==
  \E i \in PassedBudget :
    /\ planResults[i].status = "FALLBACK"
    /\ planResults[i].lastError = "planner produced no executable subgoals"
    /\ Len(planResults[i].trace) = 3
    /\ planResults[i].response.subgoals # <<>>

\* the traces of the calls of plan, returned and in flight
PlanTraces == {planResults[i].trace : i \in 1..Len(planResults)} \cup {planner.trace}

\* every repair prompt is sent right after a consume of its own that was allowed
RepairCallsConsume ==
  \A trace \in PlanTraces : \A k \in 1..Len(trace) :
    (trace[k].event = "generateJson" /\ trace[k].mode = "repair" /\ trace[k].attempt = 0) =>
      /\ k > 1
      /\ trace[k - 1].event = "consume"
      /\ trace[k - 1].allowed

\* the calls of plan in which a consume for a reprompt was denied
DeniedReprompts ==
  {i \in 1..Len(planResults) :
     \E k \in 2..Len(planResults[i].trace) :
       planResults[i].trace[k].event = "consume" /\ ~planResults[i].trace[k].allowed}

\* the denied consume is the last thing the call did, and its note is there
RepromptSkipped(i) ==
  /\ planResults[i].trace[Len(planResults[i].trace)].event = "consume"
  /\ \A k \in 2..(Len(planResults[i].trace) - 1) :
       planResults[i].trace[k].event = "consume" => planResults[i].trace[k].allowed
  /\ \E k \in 1..Len(planResults[i].notes) :
       /\ planResults[i].notes[k].note = "feasibility_reprompt_skipped"
       /\ planResults[i].notes[k].reason =
            planResults[i].trace[Len(planResults[i].trace)].reason
  /\ planResults[i].status = "SUCCESS"

\* C26 as stated: every reprompt consumes a token of its own before its repair
\* call; when that consume is denied, no repair call follows, the note is
\* recorded, and plan returns SUCCESS with the guarded initial plan
C26_DeniedRepromptKeepsInitialPlan ==
  /\ RepairCallsConsume
  /\ \A i \in DeniedReprompts :
       /\ RepromptSkipped(i)
       /\ planResults[i].response.subgoals = planResults[i].guardedInitial

\* C26, amended: the same, and plan returns SUCCESS with the plan guarded last:
\* the guarded initial plan when no repair call of this call of plan has
\* returned a plan, else the guarded plan of the last repair
C26_DeniedRepromptKeepsGuardedPlan ==
  /\ RepairCallsConsume
  /\ \A i \in DeniedReprompts :
       /\ RepromptSkipped(i)
       /\ planResults[i].response.subgoals = planResults[i].guarded
       /\ ~HasNote(planResults[i].notes, "feasibility_reprompt_attempt") =>
            planResults[i].guarded = planResults[i].guardedInitial

\* the consume of the first reprompt was denied: plan has called the model once
\* and has returned SUCCESS with the guarded initial plan and the note
C26_Witness ==
  \E i \in DeniedReprompts :
    /\ planResults[i].status = "SUCCESS"
    /\ Len(planResults[i].trace) = 3
    /\ HasNote(planResults[i].notes, "feasibility_reprompt_skipped")
    /\ HasNote(planResults[i].notes, "guard_adjusted_initial_plan")
    /\ planResults[i].response.subgoals = planResults[i].guardedInitial

\* the block a collect or goto_nearest of a guarded plan works on
blockOf(subgoal) ==
  IF subgoal.name \in {"collect", "goto_nearest"}
  THEN resolveBlockFromTarget(createContext(guardSnapshot), targetNameFromSubgoal(subgoal))
  ELSE NoName

\* the tool the guard asks for is made of what the block drops: the ore of the
\* catalog that stands for a dependency cycle, which no order of subgoals satisfies
ToolMadeOfDrop(blockName) ==
  \E i \in 1..Len(Recipes(requiredToolForBlock(blockName))) :
    \E k \in 1..Len(Recipes(requiredToolForBlock(blockName))[i].ingredients) :
      Recipes(requiredToolForBlock(blockName))[i].ingredients[k].name
        = primaryDroppedItemForBlock(blockName)

\* the block needs a harvest tool and the agent holds none of its harvest tools
LacksToolFor(blockName) ==
  /\ blockName # NoName
  /\ HarvestTools(blockName) # {}
  /\ ~ToolMadeOfDrop(blockName)
  /\ \A t \in HarvestTools(blockName) : guardSnapshot.inventory[t] = 0

\* a subgoal before position i of the plan crafts a harvest tool of the block
ToolCraftedBefore(subgoals, i, blockName) ==
  \E j \in 1..(i - 1) :
    /\ subgoals[j].name = "craft"
    /\ craftItemName(subgoals[j]) \in HarvestTools(blockName)

\* C31: in the plan the guard returns, every collect or goto_nearest on a block
\* whose harvest tools the agent lacks comes after a craft of one of these tools,
\* and every such subgoal of the plan it was given is in the returned plan, with
\* the block written into its params.
C31_ToolBeforeGatedBlock ==
  Len(guardRuns) >= 1 =>
    /\ \A i \in 1..Len(guardRuns[1].subgoals) :
         LacksToolFor(blockOf(guardRuns[1].subgoals[i])) =>
           ToolCraftedBefore(guardRuns[1].subgoals, i, blockOf(guardRuns[1].subgoals[i]))
    /\ \A k \in 1..Len(guardPlan) :
         LacksToolFor(blockOf(guardPlan[k])) =>
           \E i \in 1..Len(guardRuns[1].subgoals) :
             guardRuns[1].subgoals[i] =
               [guardPlan[k] EXCEPT !.params = ("block" :> blockOf(guardPlan[k])) @@ @]

\* C31, the case: a collect of stone given with an empty inventory; the returned
\* plan crafts a wooden pickaxe and ends with the collect
C31_Witness ==
  /\ Len(guardRuns) >= 1
  /\ guardPlan = <<Wanted("collect", [block |-> "stone", count |-> 2], 2)>>
  /\ guardSnapshot.inventory = Inventory("", 0)
  /\ \E j \in 1..Len(guardRuns[1].subgoals) :
       /\ guardRuns[1].subgoals[j].name = "craft"
       /\ craftItemName(guardRuns[1].subgoals[j]) = "wooden_pickaxe"
  /\ guardRuns[1].subgoals[Len(guardRuns[1].subgoals)] = guardPlan[1]

\* the agents with a skill handler in flight
AgentsInFlight == IF SkillsInFlight > 0 THEN {BotId} ELSE {}

\* C32: every agent with a skill handler in flight holds a slot of the
\* SkillLimiter, and the limiter holds at most MAX_CONCURRENT_SKILLS slots: the
\* number of agents with a handler in flight never exceeds the cap, also after
\* a disconnect or a stop in the middle of the skill.
C32_SlotHeldWhileInFlight ==
  /\ AgentsInFlight \subseteq active
  /\ Cardinality(active) <= MAX_CONCURRENT_SKILLS

\* C33: whenever a skill handler is in flight, busy is true and currentSubgoal is
\* the subgoal the handler executes; a death or a disconnect in the middle of the
\* handler leaves both as they are.
C33_BusyWhileHandlerRuns ==
  \A i \in TicksAt("skill") : busy /\ currentSubgoal = ticks[i].sub

\* C34: every tick of an agent that is not stopped completes in the end:
\* tickInFlight returns to false, also when a skill handler hangs or the
\* connection drops in the middle of a skill.
C34_TickCompletes == (tickInFlight /\ ~stopped) ~> (~tickInFlight \/ stopped)

\* the handler of tick i was running when the agent died: with no stop and no
\* disconnect so far, only the death listener has cleared currentSubgoal under it
DiedInFlight(i) ==
  /\ ticks[i].pc = "skill"
  /\ deaths > 0
  /\ stops = 0
  /\ disconnects = 0
  /\ currentSubgoal # ticks[i].sub

\* C35: no step puts a subgoal that was executing when the agent died back on the
\* queue: after the death the queue holds no subgoal that descends from it, until
\* a new plan is enqueued.
C35_NoRequeueAfterDeath ==
  [][\A i \in 1..Len(ticks) :
       DiedInFlight(i) =>
         \A k \in 1..Len(queue') : queue'[k].origin # ticks[i].sub.origin]_vars

\* C36: while the handler of one agent runs for a lock-keyed subgoal, no handler
\* of another agent runs for the same lock key, whenever the heartbeat fires.
\* Only executions whose agent was granted the key and has not released it are
\* compared, which leaves out an agent with two executions of its own in flight.
C36_OneHandlerPerKey ==
  \A e1, e2 \in Execs :
    (/\ execs[e1].pc = "handler"
     /\ execs[e2].pc = "handler"
     /\ execs[e1].lockKey # "none"
     /\ execs[e1].lockKey = execs[e2].lockKey
     /\ granted[execs[e1].lockKey][execs[e1].agent] > 0
     /\ granted[execs[e2].lockKey][execs[e2].agent] > 0)
      => execs[e1].agent = execs[e2].agent

\* the calls of plan, returned and in flight, each with its agent and its trace
PlanCalls ==
  [i \in 1..Len(planResults) |-> [bot |-> planResults[i].bot, trace |-> planResults[i].trace]]
    \o <<[bot |-> planner.bot, trace |-> planner.trace]>>

\* the requests sent to the LLM for an agent with a time in the closed window
\* [t, t + HourMs]: call of plan and position in its trace
LlmRequestsIn(b, t) ==
  UNION {{<<i, k>> : k \in {j \in 1..Len(PlanCalls[i].trace) :
                               /\ PlanCalls[i].trace[j].event = "generateJson"
                               /\ t <= PlanCalls[i].trace[j].at
                               /\ PlanCalls[i].trace[j].at <= t + HourMs}} :
           i \in {c \in 1..Len(PlanCalls) : PlanCalls[c].bot = b}}

\* C37: in every window of one hour the planner service sends at most per_bot_cap
\* requests to the LLM for one agent, the retries after errors included.
C37_RequestsWithinCap ==
  \A b \in Agents, t \in 0..MaxClock :
    Cardinality(LlmRequestsIn(b, t)) <= LLM_PER_BOT_HOURLY_CAP

\* C38: while a failed subgoal waits at the head of the queue for its retry delay
\* (notBeforeMs > now), no step dispatches a subgoal that stands behind it in
\* the queue.
C38_NoDispatchPastWaitingRetry ==
  [][(/\ Len(queue) > 1
      /\ queue[1].retryCount > 0
      /\ queue[1].notBeforeMs > now)
       => \A i \in 1..Len(ticks') :
            (ticks'[i].pc = "clear_pre" /\ ~InSeq(ticks'[i], ticks))
              => ~InSeq(ticks'[i].sub, Tail(queue))]_vars

\* C39: a heartbeat returns true only when the caller's lease on the key has not
\* reached its expires_at at the time of the call; a lease that has expired is
\* not extended.
C39_HeartbeatNeedsActiveLease ==
  [][(LockCallStep({"heartbeat"}) /\ lockCall'.ok)
       => /\ LeaseOf(leases, lockCall'.key).ownerBotId = lockCall'.agent
          /\ LeaseOf(leases, lockCall'.key).expiresAt > clock]_vars

\* C40: a consume that follows a denial of the same agent, with no other consume
\* in between and exactly retryAfterMs after it, is allowed.
C40_AllowedAfterRetryAfter ==
  [][(/\ decision.bot # "none"
      /\ ~decision.allowed
      /\ decision' # decision
      /\ decision'.bot = decision.bot
      /\ decision'.at = decision.at + decision.retryAfterMs)
       => decision'.allowed]_vars

=========================================================================
